---- MODULE Spec2Model ----
(***************************************************************************)
(* Model of the Kinesis MCP server: the exception-normalisation wrapper    *)
(* (common.py), the validation constants (consts.py) and the tools of      *)
(* server.py.  One action is one complete tool invocation: argument        *)
(* checks, client creation, the request(s) sent to the service and the     *)
(* wrapper around all of it.                                               *)
(*                                                                         *)
(* Python values are tagged records.  A string is a sequence of runs       *)
(* <<c, w, n>>: the text c (w characters wide) repeated n times, so that a *)
(* string of 2048 characters is one run and not 2048 cells.                *)
(***************************************************************************)
EXTENDS FiniteSets, Integers, Sequences, TLC

VARIABLES
    env,      \* os.environ: the variables the server reads
    call,     \* the invocation in progress: tool, arguments, what the service does
    inner,    \* what the decorated function body did: returned or raised
    outcome,  \* what the caller of the tool gets: a value or an exception
    sent,     \* the requests sent to the service during the invocation
    client,   \* the client obtained during the invocation
    streams,  \* the streams the service holds: pairs of name and stream mode
    executed, \* how often the function behind confirm_destruction ran in the invocation
    advised,  \* whether the last call was blocked by confirm_destruction ("blocked"),
              \* and whether option 1 of its message was taken since ("followed")
    credentials, \* AWS_ACCESS_KEY_ID and the other credentials in the environment
    stream_mode_default \* the dict that is the default of create_stream's
                        \* stream_mode_details: one object for all calls

vars == <<env, call, inner, outcome, sent, client, streams, executed, advised, credentials,
          stream_mode_default>>

(***************************************************************************)
(* Bounds of the model (not program constants).                            *)
(***************************************************************************)
\* lengths and counts are tried up to (maximum + Slack)
Slack == 1
\* the service creates streams until it holds this many
MaxStreams == 1

(***************************************************************************)
(* consts.py                                                               *)
(***************************************************************************)
DEFAULT_REGION == "us-west-2"
DEFAULT_SHARD_COUNT == 1
DEFAULT_STREAM_LIMIT == 100
DEFAULT_GET_RECORDS_LIMIT == 10000
DEFUALT_MAX_RESULTS == 100
DEFAULT_MAX_RESULTS == 1000
STREAM_MODE_ON_DEMAND == "ON_DEMAND"
STREAM_MODE_PROVISIONED == "PROVISIONED"
MAX_STREAM_NAME_LENGTH == 128
MIN_STREAM_NAME_LENGTH == 1
MAX_STREAM_ARN_LENGTH == 2048
MIN_STREAM_ARN_LENGTH == 1
MAX_LIMIT == 10000
MIN_LIMIT == 1
MAX_SHARDS_PER_STREAM == 500
MIN_SHARDS_PER_STREAM == 1
MAX_SHARD_ID_LENGTH == 128
MIN_SHARD_ID_LENGTH == 1
MAX_RESULTS_PER_STREAM == 1000
MIN_RESULTS_PER_STREAM == 1
MAX_RECORDS == 500
MIN_RECORDS == 1
MAX_LENGTH_SHARD_ITERATOR == 512
MIN_LENGTH_SHARD_ITERATOR == 1
VALID_SHARD_ITERATOR_TYPES ==
    {"AT_SEQUENCE_NUMBER", "AFTER_SEQUENCE_NUMBER", "TRIM_HORIZON", "LATEST", "AT_TIMESTAMP"}
VALID_SHARD_LEVEL_METRICS ==
    {"IncomingBytes", "IncomingRecords", "OutgoingBytes", "OutgoingRecords",
     "WriteProvisionedThroughputExceeded", "ReadProvisionedThroughputExceeded",
     "IteratorAgeMilliseconds", "All"}
MIN_SHARD_LEVEL_METRICS == 1
MAX_SHARD_LEVEL_METRICS == 7
MAX_TAGS_COUNT == 50
MAX_TAG_KEY_LENGTH == 128
MIN_TAG_KEY_LENGTH == 1
MAX_TAG_VALUE_LENGTH == 256

(***************************************************************************)
(* Python values                                                           *)
(***************************************************************************)
None == [t |-> "none", s |-> <<>>, n |-> 0, items |-> <<>>]
PyStr(runs) == [t |-> "str", s |-> runs, n |-> 0, items |-> <<>>]
PyInt(i) == [t |-> "int", s |-> <<>>, n |-> i, items |-> <<>>]
PyList(xs) == [t |-> "list", s |-> <<>>, n |-> 0, items |-> xs]
PyDict(kvs) == [t |-> "dict", s |-> <<>>, n |-> 0, items |-> kvs]
\* a datetime object; its fields are never read by the server
Datetime(i) == [t |-> "datetime", s |-> <<>>, n |-> i, items |-> <<>>]
\* a key that is not in the forwarded keyword arguments
Absent == [t |-> "absent", s |-> <<>>, n |-> 0, items |-> <<>>]

\* the character c repeated k times
Chars(c, k) == IF k = 0 THEN <<>> ELSE << <<c, 1, k>> >>
\* the literal text
Lit(text) == IF text = "" THEN <<>> ELSE << <<text, Len(text), 1>> >>

RECURSIVE RunsLen(_)
RunsLen(runs) ==
    IF runs = <<>> THEN 0 ELSE Head(runs)[2] * Head(runs)[3] + RunsLen(Tail(runs))

\* len(v) of a string, list or dict
len(v) == IF v.t = "str" THEN RunsLen(v.s) ELSE Len(v.items)

\* bool(v): None, "", 0, [] and {} are falsy
truthy(v) ==
    CASE v.t = "none" -> FALSE
      [] v.t = "str" -> RunsLen(v.s) > 0
      [] v.t = "int" -> v.n # 0
      [] v.t \in {"list", "dict"} -> Len(v.items) > 0
      [] OTHER -> TRUE

isinstance(v, types) == v.t \in types

\* v == text, for a text of the program
eq_text(v, text) == v.t = "str" /\ v.s = Lit(text)
\* v in texts, for a set or list of texts of the program
in_texts(v, texts) == \E text \in texts : eq_text(v, text)

\* d.get(key) of a dict with string keys
RECURSIVE items_get(_, _)
items_get(kvs, key) ==
    IF kvs = <<>> THEN None
    ELSE IF eq_text(Head(kvs)[1], key) THEN Head(kvs)[2]
    ELSE items_get(Tail(kvs), key)
dict_get(d, key) == items_get(d.items, key)

\* re.match(r'^[a-zA-Z0-9._-]+$', s): one or more allowed characters and
\* then the end of the string, where $ also matches before a final newline
re_match_name(v) ==
    LET \* texts made only of characters of [a-zA-Z0-9._-]
        NameTexts ==
            {"a", "b", "k", "v", "-", "_", ".", "test", "test-stream", "shardId-000000000000"}
        runs == v.s
        last == runs[Len(runs)]
        body == IF runs # <<>> /\ last[1] = "\n" /\ last[2] = 1
                THEN IF last[3] = 1 THEN SubSeq(runs, 1, Len(runs) - 1)
                     ELSE [runs EXCEPT ![Len(runs)][3] = last[3] - 1]
                ELSE runs
    IN  /\ body # <<>>
        /\ \A i \in 1..Len(body) : body[i][1] \in NameTexts

(***************************************************************************)
(* Results of a call: a returned value or a raised exception               *)
(***************************************************************************)
\* msg is the text of the exception's message, names the set of values that an
\* f-string interpolates into it
Return(v) == [kind |-> "return", exc |-> "", msg |-> "", names |-> {}, value |-> v]
Raise(exc, msg) == [kind |-> "raise", exc |-> exc, msg |-> msg, names |-> {}, value |-> None]
NoOutcome == [kind |-> "none", exc |-> "", msg |-> "", names |-> {}, value |-> None]

\* issubclass(exc, (ValueError, TypeError)) for the exception classes of the model
IsValidationClass(exc) == exc \in {"ValueError", "TypeError"}

\* one check of a tool: the condition under which it raises, and what
Check(fail, exc, msg) == [fail |-> fail, exc |-> exc, msg |-> msg, names |-> {}]
CheckNames(fail, exc, msg, names) == [fail |-> fail, exc |-> exc, msg |-> msg, names |-> names]
\* raise what the failed check raises
RaiseOf(v) == [kind |-> "raise", exc |-> v.exc, msg |-> v.msg, names |-> v.names, value |-> None]

\* the checks of a tool run in source order; the first that fails raises
FirstFailure(checks) ==
    LET failing == {i \in 1..Len(checks) : checks[i].fail} IN
    IF failing = {} THEN [fail |-> FALSE, exc |-> "", msg |-> "", names |-> {}]
    ELSE checks[CHOOSE i \in failing : \A j \in failing : i <= j]

(***************************************************************************)
(* Environment variables                                                   *)
(***************************************************************************)
Unset == [set |-> FALSE, val |-> ""]
Set(v) == [set |-> TRUE, val |-> v]

\* os.environ.get(name) == text
environ_is(e, name, text) == e[name].set /\ e[name].val = text

(***************************************************************************)
(* common.py: handle_exceptions                                            *)
(***************************************************************************)
\* as handle_exceptions, without the clause that re-raises validation errors
handle_exceptions_no_reraise(res, e) ==
    IF res.kind = "return" THEN res
    ELSE IF environ_is(e, "TESTING", "true") THEN res
    ELSE Return(None)

\* as handle_exceptions, with the TESTING flag as it was when the tool was
\* defined: not set
handle_exceptions_at_definition(res, e) ==
    IF res.kind = "return" THEN res
    ELSE IF IsValidationClass(res.exc) THEN res
    ELSE Return(None)

\* as handle_exceptions, reading the TESTING flag without regard to case
handle_exceptions_any_case(res, e) ==
    IF res.kind = "return" THEN res
    ELSE IF IsValidationClass(res.exc) THEN res
    ELSE IF environ_is(e, "TESTING", "true") \/ environ_is(e, "TESTING", "True") THEN res
    ELSE Return(None)

\* the wrapper around func: res is what func did, e is os.environ at the
\* moment the exception is caught
handle_exceptions(res, e) ==
    IF res.kind = "return" THEN res
    ELSE IF IsValidationClass(res.exc) THEN res
    ELSE IF environ_is(e, "TESTING", "true") THEN res
    ELSE Return(None)

(***************************************************************************)
(* common.py: confirm_destruction                                          *)
(***************************************************************************)
\* text.lower() of a text given as the tuple of its characters
lower(text) ==
    LET Letters ==
            << <<"A", "a">>, <<"B", "b">>, <<"C", "c">>, <<"D", "d">>, <<"E", "e">>,
               <<"F", "f">>, <<"G", "g">>, <<"H", "h">>, <<"I", "i">>, <<"J", "j">>,
               <<"K", "k">>, <<"L", "l">>, <<"M", "m">>, <<"N", "n">>, <<"O", "o">>,
               <<"P", "p">>, <<"Q", "q">>, <<"R", "r">>, <<"S", "s">>, <<"T", "t">>,
               <<"U", "u">>, <<"V", "v">>, <<"W", "w">>, <<"X", "x">>, <<"Y", "y">>,
               <<"Z", "z">> >>
    IN  [i \in DOMAIN text |->
            IF \E k \in DOMAIN Letters : Letters[k][1] = text[i]
            THEN Letters[CHOOSE k \in DOMAIN Letters : Letters[k][1] = text[i]][2]
            ELSE text[i]]

\* the dict with the one key 'message' (of the text, its heading and option 1)
Advisory ==
    PyDict(<< <<PyStr(Lit("message")),
               PyStr(Lit("Deletion blocked: Safety mechanism activated")
                     \o Lit("1. Set the CONFIRM_DESTRUCTIVE_ACTION environment variable to 'false'"))>> >>)

\* as confirm_destruction, comparing the value as it is written
confirm_destruction_as_written(res, e) ==
    LET allow_destruction ==
            IF e["CONFIRM-DESTRUCTION"].set THEN e["CONFIRM-DESTRUCTION"].val ELSE <<>>
    IN  IF allow_destruction \in {<<"f", "a", "l", "s", "e">>, <<"n", "o">>}
        THEN [res |-> Return(Advisory), inner |-> NoOutcome, executed |-> 0]
        ELSE [res |-> res, inner |-> res, executed |-> 1]

\* wrapper: res is what func does when it is called
confirm_destruction(res, e) ==
    LET allow_destruction ==
            lower(IF e["CONFIRM-DESTRUCTION"].set THEN e["CONFIRM-DESTRUCTION"].val ELSE <<>>)
    IN  IF allow_destruction \in {<<"f", "a", "l", "s", "e">>, <<"n", "o">>}
        THEN [res |-> Return(Advisory), inner |-> NoOutcome, executed |-> 0]
        ELSE [res |-> res, inner |-> res, executed |-> 1]

(***************************************************************************)
(* The external service and its client library (boto3), as seen from the   *)
(* server: creating a client and sending a request either work or raise    *)
(* one of the library's exceptions, none of which is a ValueError or a     *)
(* TypeError (ClientError and BotoCoreError derive from Exception).        *)
(***************************************************************************)
\* what distinguishes one answer of the service from another: for put_records
\* the FailedRecordCount it reports
Answers == {0, 1}

\* the service is not involved
NoExt ==
    [create |-> "unused", reply |-> "unused", reply2 |-> "unused", retention |-> 0,
     answer |-> 0]
\* what can happen to a tool that creates a client and sends one request
Ext1 ==
    {[NoExt EXCEPT !.create = "NoCredentialsError"]}
    \cup {[NoExt EXCEPT !.create = "ok", !.reply = r] :
             r \in {"ClientError", "EndpointConnectionError"}}
    \cup {[NoExt EXCEPT !.create = "ok", !.reply = "ok", !.answer = x] : x \in Answers}
\* what can happen to a tool that sends describe_stream and then a second
\* request; describe_stream reports a RetentionPeriodHours of 24 or 48
Ext2 ==
    {x \in Ext1 : x.reply # "ok"}
    \cup {[NoExt EXCEPT !.create = "ok", !.reply = "ok", !.reply2 = r, !.retention = h] :
             r \in {"ClientError", "EndpointConnectionError"}, h \in {24, 48}}
    \cup {[NoExt EXCEPT !.create = "ok", !.reply = "ok", !.reply2 = "ok", !.retention = h,
                        !.answer = x] :
             h \in {24, 48}, x \in Answers}

\* the dictionary the client returns: put_records reports one entry per record
\* it was sent and the number of records that failed
\* the stream mode the service holds for the stream of this name
StreamModeOf(name) ==
    IF \E st \in streams : st[1] = name
    THEN (CHOOSE st \in streams : st[1] = name)[2]
    ELSE <<>>

Response(op, params, answer) ==
    IF op = "put_records"
    THEN [t |-> "response", op |-> op, FailedRecordCount |-> answer,
          Records |-> Len(params["Records"].items)]
    ELSE IF op = "describe_stream_summary"
    THEN [t |-> "response", op |-> op, StreamName |-> params["StreamName"].s,
          StreamMode |-> StreamModeOf(params["StreamName"].s)]
    ELSE [t |-> "response", op |-> op, payload |-> answer]

\* what the service can answer to the requests of an invocation: it creates
\* a stream under a new name while it holds fewer than MaxStreams, and it
\* describes the summary of a stream it holds, named by the request
ServiceAccepts(requests, ext) ==
    LET last == requests[Len(requests)]
        okay == IF Len(requests) = 2 THEN ext.reply2 = "ok" ELSE ext.reply = "ok"
    IN  (requests # <<>> /\ okay) =>
            /\ last.op = "create_stream" =>
                  /\ Cardinality(streams) < MaxStreams
                  /\ \A st \in streams : st[1] # last.params["StreamName"].s
            /\ last.op = "describe_stream_summary" =>
                  \E st \in streams : st[1] = last.params["StreamName"].s

\* the streams the service holds after the requests of an invocation
StreamsAfter(requests, res) ==
    IF requests # <<>> /\ res.kind = "return"
          /\ requests[Len(requests)].op = "create_stream"
    THEN streams \cup
           {<<requests[1].params["StreamName"].s,
              dict_get(requests[1].params["StreamModeDetails"], "StreamMode").s>>}
    ELSE streams
\* as Client, with the credentials the process started with
Client_of_first_session(region) ==
    [t |-> "client", region |-> region, credentials |-> "testing"]

\* boto3.Session().client('kinesis', region_name=region, ...): the new session
\* loads the credentials the environment holds now
Client(region) == [t |-> "client", region |-> region, credentials |-> credentials]
NoClient == [t |-> "noclient"]
FailedClient == [t |-> "failed"]

(***************************************************************************)
(* server.py: get_kinesis_client                                           *)
(***************************************************************************)
\* as region_of, with AWS_REGION asked before the argument
region_of_env_first(region_name, e) ==
    IF e["AWS_REGION"].set /\ e["AWS_REGION"].val # ""
    THEN PyStr(Lit(e["AWS_REGION"].val))
    ELSE IF truthy(region_name) THEN region_name
    ELSE PyStr(Lit("us-west-2"))

\* region_name or os.getenv('AWS_REGION') or 'us-west-2'
region_of(region_name, e) ==
    IF truthy(region_name) THEN region_name
    ELSE IF e["AWS_REGION"].set /\ e["AWS_REGION"].val # ""
         THEN PyStr(Lit(e["AWS_REGION"].val))
    ELSE PyStr(Lit("us-west-2"))

\* the undecorated body: a new session, then session.client(...)
get_kinesis_client_body(region_name, e, ext) ==
    IF ext.create = "ok" THEN Return(Client(region_of(region_name, e)))
    ELSE Raise(ext.create, "")

\* @handle_exceptions def get_kinesis_client
get_kinesis_client(region_name, e, ext) ==
    handle_exceptions(get_kinesis_client_body(region_name, e, ext), e)

(***************************************************************************)
(* Keyword arguments of a request                                          *)
(***************************************************************************)
ParamKeys ==
    {"Records", "StreamName", "StreamARN", "ShardIterator", "Limit", "ShardCount",
     "StreamModeDetails", "Tags", "ExclusiveStartStreamName", "NextToken", "ShardId",
     "ShardIteratorType", "StartingSequenceNumber", "Timestamp", "ExclusiveStartShardId",
     "ConsumerName", "ConsumerARN", "StreamCreationTimestamp", "MaxResults",
     "ResourceARN", "ShardLevelMetrics", "RetentionPeriodHours", "ExclusiveStartTagKey",
     "Policy", "TargetShardCount", "ScalingType", "TagKeys", "EncryptionType", "KeyId"}

\* params = {}
EmptyParams == [k \in ParamKeys |-> Absent]
\* params[key] = v
With(p, key, v) == [p EXCEPT ![key] = v]
\* if v is not None: params[key] = v
WithOpt(p, key, v) == IF v.t # "none" THEN [p EXCEPT ![key] = v] ELSE p

Request(op, params, c) == [op |-> op, params |-> params, region |-> c.region]

(***************************************************************************)
(* The body of a tool that sends one request: the checks, then the client  *)
(* is obtained, the request is sent with the keyword arguments params and  *)
(* the response is returned.                                               *)
(***************************************************************************)
NoneTypeError == Raise("AttributeError", "'NoneType' object has no attribute")

\* as call_service, with the response cut down to the name of the operation
call_service_summarised(op, params, region_name, e, ext) ==
    LET k == get_kinesis_client(region_name, e, ext) IN
    IF k.kind = "raise"
    THEN [res |-> k, sent |-> <<>>, client |-> FailedClient]
    ELSE IF k.value.t = "none"
    THEN [res |-> NoneTypeError, sent |-> <<>>, client |-> FailedClient]
    ELSE [res |-> IF ext.reply = "ok" THEN Return([t |-> "response", op |-> op])
                 ELSE Raise(ext.reply, ""),
          sent |-> <<Request(op, params, k.value)>>,
          client |-> k.value]

call_service(op, params, region_name, e, ext) ==
    LET k == get_kinesis_client(region_name, e, ext) IN
    IF k.kind = "raise"
    THEN [res |-> k, sent |-> <<>>, client |-> FailedClient]
    ELSE IF k.value.t = "none"
    THEN [res |-> NoneTypeError, sent |-> <<>>, client |-> FailedClient]
    ELSE [res |-> IF ext.reply = "ok" THEN Return(Response(op, params, ext.answer))
                 ELSE Raise(ext.reply, ""),
          sent |-> <<Request(op, params, k.value)>>,
          client |-> k.value]

\* as tool_body, obtaining the client before the checks are made
tool_body_client_first(checks, op, params, region_name, e, ext) ==
    LET v == FirstFailure(checks)
        r == call_service(op, params, region_name, e, ext)
    IN  IF v.fail THEN [res |-> RaiseOf(v), sent |-> <<>>, client |-> r.client] ELSE r

tool_body(checks, op, params, region_name, e, ext) ==
    LET v == FirstFailure(checks) IN
    IF v.fail
    THEN [res |-> RaiseOf(v), sent |-> <<>>, client |-> NoClient]
    ELSE call_service(op, params, region_name, e, ext)

\* the service makes its choices only when a tool gets as far as asking it
ExtFor(checks, exts) == IF FirstFailure(checks).fail THEN {NoExt} ELSE exts

\* as stream_mode_details_after, with the stream mode written into the dict
\* when a shard_count comes with it
stream_mode_details_after_fixed_up(a, default) ==
    IF a.shard_count.t = "int" /\ a.stream_mode_details = default
    THEN PyDict(<< <<PyStr(Lit("StreamMode")), PyStr(Lit(STREAM_MODE_PROVISIONED))>> >>)
    ELSE default

\* the default dict of stream_mode_details after a call of create_stream with
\* the arguments a: the body reads stream_mode_details and puts it into params,
\* it writes nothing into it
stream_mode_details_after(a, default) == default

NoCall == [tool |-> "", args |-> <<>>, service |-> NoExt]

\* one invocation of a tool: r is what its body did; the decorator
\* @handle_exceptions wraps the body
Invocation(tool, args, ext, r) ==
    /\ call = NoCall
    /\ ServiceAccepts(r.sent, ext)
    /\ call' = [tool |-> tool, args |-> args, service |-> ext]
    /\ inner' = r.res
    /\ outcome' = handle_exceptions(r.res, env)
    /\ sent' = r.sent
    /\ client' = r.client
    /\ streams' = StreamsAfter(r.sent, r.res)
    /\ stream_mode_default' =
          IF tool = "create_stream" THEN stream_mode_details_after(args, stream_mode_default)
          ELSE stream_mode_default
    /\ UNCHANGED <<env, executed, advised, credentials>>

\* a tool that sends one request, called with the arguments a
Tool(tool, a, checks, params, region_name) ==
    /\ call = NoCall
    /\ \E ext \in ExtFor(checks, Ext1) :
          Invocation(tool, a, ext, tool_body(checks, tool, params, region_name, env, ext))

(***************************************************************************)
(* Arguments the caller may pass.  Each tool is called with a valid        *)
(* baseline in which one argument, or one group of related arguments, is   *)
(* varied over the values below.                                           *)
(***************************************************************************)
ValidName == PyStr(Lit("test-stream"))
ValidArn == PyStr(Lit("arn:aws:kinesis:us-west-2:123456789012:stream/test-stream"))
DefaultRegion == PyStr(Lit(DEFAULT_REGION))

\* stream names: absent, of the wrong type, empty, usual, of lengths around
\* the maximum, with a forbidden character, and ending in a newline
NameArgs ==
    {None, PyInt(123), PyStr(<<>>), ValidName, PyStr(Lit("bad name!")),
     PyStr(Chars("a", MAX_STREAM_NAME_LENGTH - 1) \o Chars("\n", 1))}
    \cup {PyStr(Chars("a", k)) : k \in MAX_STREAM_NAME_LENGTH..(MAX_STREAM_NAME_LENGTH + Slack)}

\* ARNs: absent, of the wrong type, empty, usual, of lengths around the maximum
ArnArgs ==
    {None, PyInt(123), PyStr(<<>>), ValidArn}
    \cup {PyStr(Chars("a", k)) : k \in MAX_STREAM_ARN_LENGTH..(MAX_STREAM_ARN_LENGTH + Slack)}

\* integers around the bounds lo and hi, and values that are no integers
IntArgs(lo, hi) ==
    {None, PyStr(Lit("10")), PyInt(lo - 1), PyInt(lo), PyInt(hi)}
    \cup {PyInt(k) : k \in (hi + 1)..(hi + Slack)}

\* a put_records batch of k records
Records(k) ==
    PyList([i \in 1..k |->
        PyDict(<< <<PyStr(Lit("Data")), PyStr(Lit("data-") \o Chars("x", i))>>,
                  <<PyStr(Lit("PartitionKey")), PyStr(Lit("key-") \o Chars("x", i))>> >>)])

RecordsArgs ==
    {None, PyStr(Lit("not-a-list")), Records(0), Records(1), Records(2)}
    \cup {Records(k) : k \in MAX_RECORDS..(MAX_RECORDS + Slack)}

(***************************************************************************)
(* The checks most tools repeat for stream_name and stream_arn             *)
(***************************************************************************)
\* as stream_identification_check, with "or" in the place of "and"
stream_identification_check_or(stream_name, stream_arn) ==
    Check(stream_name.t = "none" \/ stream_arn.t = "none", "ValueError",
          "Either stream_name or stream_arn must be provided")

\* if stream_name is None and stream_arn is None: raise ValueError
stream_identification_check(stream_name, stream_arn) ==
    Check(stream_name.t = "none" /\ stream_arn.t = "none", "ValueError",
          "Either stream_name or stream_arn must be provided")

\* if stream_name is not None: type, allowed characters, length
stream_name_checks(stream_name) ==
    IF stream_name.t = "none" THEN <<>>
    ELSE << Check(~isinstance(stream_name, {"str"}), "TypeError",
                  "stream_name must be a string"),
            Check(~re_match_name(stream_name), "ValueError",
                  "stream_name can only contain alphanumeric characters, hyphens, underscores, and periods"),
            Check(len(stream_name) < MIN_STREAM_NAME_LENGTH
                    \/ len(stream_name) > MAX_STREAM_NAME_LENGTH, "ValueError",
                  "stream_name length must be between 1 and 128 characters") >>

\* if stream_arn is not None: type, length
stream_arn_checks(stream_arn) ==
    IF stream_arn.t = "none" THEN <<>>
    ELSE << Check(~isinstance(stream_arn, {"str"}), "TypeError",
                  "stream_arn must be a string"),
            Check(len(stream_arn) < MIN_STREAM_ARN_LENGTH
                    \/ len(stream_arn) > MAX_STREAM_ARN_LENGTH, "ValueError",
                  "stream_arn length must be between 1 and 2048 characters") >>

\* the identifiers of a stream, varied together
IdentifierArgs(b) ==
    {[b EXCEPT !.stream_name = x, !.stream_arn = y] : x \in NameArgs, y \in ArnArgs}
RegionNameArgs(b) ==
    {[b EXCEPT !.region_name = x] :
        x \in {DefaultRegion, PyStr(Lit("eu-west-1")), PyStr(<<>>), None}}

(***************************************************************************)
(* server.py: put_records                                                  *)
(***************************************************************************)
\* as put_records_checks, with a batch of MAX_RECORDS already refused
put_records_checks_below_max(a) ==
    << Check(~truthy(a.records), "ValueError", "records is required"),
       Check(~isinstance(a.records, {"list"}), "TypeError", "records must be a list"),
       Check(len(a.records) < MIN_RECORDS \/ len(a.records) >= MAX_RECORDS, "ValueError",
             "Number of records must be between 1 and 500"),
       stream_identification_check(a.stream_name, a.stream_arn) >>
    \o stream_name_checks(a.stream_name)
    \o stream_arn_checks(a.stream_arn)

put_records_checks(a) ==
    << Check(~truthy(a.records), "ValueError", "records is required"),
       Check(~isinstance(a.records, {"list"}), "TypeError", "records must be a list"),
       Check(len(a.records) < MIN_RECORDS \/ len(a.records) > MAX_RECORDS, "ValueError",
             "Number of records must be between 1 and 500"),
       stream_identification_check(a.stream_name, a.stream_arn) >>
    \o stream_name_checks(a.stream_name)
    \o stream_arn_checks(a.stream_arn)

put_records_params(a) ==
    WithOpt(WithOpt(With(EmptyParams, "Records", a.records),
                    "StreamName", a.stream_name),
            "StreamARN", a.stream_arn)

put_records_base ==
    [records |-> Records(1), stream_name |-> ValidName, stream_arn |-> None,
     region_name |-> DefaultRegion]

put_records ==
    \E a \in
      ( {[put_records_base EXCEPT !.records = x] : x \in RecordsArgs}
        \cup {[put_records_base EXCEPT !.records = x, !.stream_name = None, !.stream_arn = ValidArn] :
                x \in RecordsArgs}
        \cup IdentifierArgs(put_records_base)
        \cup RegionNameArgs(put_records_base) ) :
        Tool("put_records", a, put_records_checks(a), put_records_params(a), a.region_name)

(***************************************************************************)
(* server.py: describe_stream_summary                                      *)
(***************************************************************************)
describe_stream_summary_checks(a) ==
    << stream_identification_check(a.stream_name, a.stream_arn) >>
    \o stream_name_checks(a.stream_name)
    \o stream_arn_checks(a.stream_arn)

\* params = {} and nothing is added to it
describe_stream_summary_params(a) == EmptyParams

describe_stream_summary_base ==
    [stream_name |-> ValidName, stream_arn |-> None, region_name |-> DefaultRegion]

describe_stream_summary ==
    \E a \in
      ( IdentifierArgs(describe_stream_summary_base)
        \cup {[describe_stream_summary_base EXCEPT !.stream_name = PyStr(Lit("test"))]}
        \cup RegionNameArgs(describe_stream_summary_base) ) :
        Tool("describe_stream_summary", a, describe_stream_summary_checks(a),
             describe_stream_summary_params(a), a.region_name)

(***************************************************************************)
(* server.py: get_shard_iterator                                           *)
(***************************************************************************)
\* re.match(r'^[a-zA-Z0-9_.-]+$', shard_id): the same character class
re_match_shard_id(v) == re_match_name(v)

ValidShardId == PyStr(Lit("shardId-000000000000"))
ShardIdArgs ==
    {None, PyInt(5), PyStr(<<>>), ValidShardId, PyStr(Lit("bad id!"))}
    \cup {PyStr(Chars("a", k)) : k \in MAX_SHARD_ID_LENGTH..(MAX_SHARD_ID_LENGTH + Slack)}

TimestampArgs == {None, Datetime(1), PyStr(Lit("2023-01-01T00:00:00")), PyInt(123)}

\* as get_shard_iterator_checks, with the sequence number required by
\* AT_SEQUENCE_NUMBER only
get_shard_iterator_checks_at_only(a) ==
    << Check(~truthy(a.shard_id), "ValueError", "shard_id is required"),
       Check(~isinstance(a.shard_id, {"str"}), "TypeError", "shard_id must be a string"),
       Check(len(a.shard_id) < MIN_SHARD_ID_LENGTH \/ len(a.shard_id) > MAX_SHARD_ID_LENGTH,
             "ValueError", "shard_id length must be between 1 and 128 characters"),
       Check(~re_match_shard_id(a.shard_id), "ValueError",
             "shard_id can only contain alphanumeric characters, underscores, periods, and hyphens"),
       CheckNames(~in_texts(a.shard_iterator_type, VALID_SHARD_ITERATOR_TYPES), "ValueError",
                  "shard_iterator_type must be one of", VALID_SHARD_ITERATOR_TYPES),
       stream_identification_check(a.stream_name, a.stream_arn) >>
    \o stream_name_checks(a.stream_name)
    \o stream_arn_checks(a.stream_arn)
    \o << Check(/\ in_texts(a.shard_iterator_type, {"AT_SEQUENCE_NUMBER"})
                /\ a.starting_sequence_number.t = "none",
                "ValueError",
                "starting_sequence_number is required for AT_SEQUENCE_NUMBER and AFTER_SEQUENCE_NUMBER shard iterator types"),
          Check(/\ a.starting_sequence_number.t # "none"
                /\ ~isinstance(a.starting_sequence_number, {"str"}),
                "TypeError", "starting_sequence_number must be a string"),
          Check(eq_text(a.shard_iterator_type, "AT_TIMESTAMP") /\ a.timestamp.t = "none",
                "ValueError", "timestamp is required for AT_TIMESTAMP shard iterator type"),
          Check(a.timestamp.t # "none" /\ ~isinstance(a.timestamp, {"datetime", "str"}),
                "TypeError", "timestamp must be a datetime object or string") >>

\* as get_shard_iterator_checks, with the iterator type examined after the
\* stream identifiers
get_shard_iterator_checks_type_late(a) ==
    << Check(~truthy(a.shard_id), "ValueError", "shard_id is required"),
       Check(~isinstance(a.shard_id, {"str"}), "TypeError", "shard_id must be a string"),
       Check(len(a.shard_id) < MIN_SHARD_ID_LENGTH \/ len(a.shard_id) > MAX_SHARD_ID_LENGTH,
             "ValueError", "shard_id length must be between 1 and 128 characters"),
       Check(~re_match_shard_id(a.shard_id), "ValueError",
             "shard_id can only contain alphanumeric characters, underscores, periods, and hyphens"),
       stream_identification_check(a.stream_name, a.stream_arn) >>
    \o stream_name_checks(a.stream_name)
    \o stream_arn_checks(a.stream_arn)
    \o << CheckNames(~in_texts(a.shard_iterator_type, VALID_SHARD_ITERATOR_TYPES),
                     "ValueError", "shard_iterator_type must be one of",
                     VALID_SHARD_ITERATOR_TYPES),
          Check(/\ in_texts(a.shard_iterator_type,
                            {"AT_SEQUENCE_NUMBER", "AFTER_SEQUENCE_NUMBER"})
                /\ a.starting_sequence_number.t = "none",
                "ValueError",
                "starting_sequence_number is required for AT_SEQUENCE_NUMBER and AFTER_SEQUENCE_NUMBER shard iterator types"),
          Check(/\ a.starting_sequence_number.t # "none"
                /\ ~isinstance(a.starting_sequence_number, {"str"}),
                "TypeError", "starting_sequence_number must be a string"),
          Check(eq_text(a.shard_iterator_type, "AT_TIMESTAMP") /\ a.timestamp.t = "none",
                "ValueError", "timestamp is required for AT_TIMESTAMP shard iterator type"),
          Check(a.timestamp.t # "none" /\ ~isinstance(a.timestamp, {"datetime", "str"}),
                "TypeError", "timestamp must be a datetime object or string") >>

get_shard_iterator_checks(a) ==
    << Check(~truthy(a.shard_id), "ValueError", "shard_id is required"),
       Check(~isinstance(a.shard_id, {"str"}), "TypeError", "shard_id must be a string"),
       Check(len(a.shard_id) < MIN_SHARD_ID_LENGTH \/ len(a.shard_id) > MAX_SHARD_ID_LENGTH,
             "ValueError", "shard_id length must be between 1 and 128 characters"),
       Check(~re_match_shard_id(a.shard_id), "ValueError",
             "shard_id can only contain alphanumeric characters, underscores, periods, and hyphens"),
       CheckNames(~in_texts(a.shard_iterator_type, VALID_SHARD_ITERATOR_TYPES), "ValueError",
                  "shard_iterator_type must be one of", VALID_SHARD_ITERATOR_TYPES),
       stream_identification_check(a.stream_name, a.stream_arn) >>
    \o stream_name_checks(a.stream_name)
    \o stream_arn_checks(a.stream_arn)
    \o << Check(/\ in_texts(a.shard_iterator_type,
                            {"AT_SEQUENCE_NUMBER", "AFTER_SEQUENCE_NUMBER"})
                /\ a.starting_sequence_number.t = "none",
                "ValueError",
                "starting_sequence_number is required for AT_SEQUENCE_NUMBER and AFTER_SEQUENCE_NUMBER shard iterator types"),
          Check(/\ a.starting_sequence_number.t # "none"
                /\ ~isinstance(a.starting_sequence_number, {"str"}),
                "TypeError", "starting_sequence_number must be a string"),
          Check(eq_text(a.shard_iterator_type, "AT_TIMESTAMP") /\ a.timestamp.t = "none",
                "ValueError", "timestamp is required for AT_TIMESTAMP shard iterator type"),
          Check(a.timestamp.t # "none" /\ ~isinstance(a.timestamp, {"datetime", "str"}),
                "TypeError", "timestamp must be a datetime object or string") >>

get_shard_iterator_params(a) ==
    WithOpt(WithOpt(WithOpt(WithOpt(
        With(With(EmptyParams, "ShardId", a.shard_id),
             "ShardIteratorType", a.shard_iterator_type),
        "StreamName", a.stream_name),
        "StreamARN", a.stream_arn),
        "StartingSequenceNumber", a.starting_sequence_number),
        "Timestamp", a.timestamp)

get_shard_iterator_base ==
    [shard_id |-> ValidShardId, shard_iterator_type |-> PyStr(Lit("TRIM_HORIZON")),
     stream_name |-> ValidName, stream_arn |-> None,
     starting_sequence_number |-> None, timestamp |-> None, region_name |-> DefaultRegion]

get_shard_iterator ==
    \E a \in
      ( {[get_shard_iterator_base EXCEPT !.shard_id = x] : x \in ShardIdArgs}
        \cup {[get_shard_iterator_base EXCEPT !.shard_iterator_type = x,
                  !.starting_sequence_number = y, !.timestamp = z, !.stream_name = n,
                  !.stream_arn = r] :
                x \in {PyStr(Lit(t)) : t \in VALID_SHARD_ITERATOR_TYPES}
                        \cup {PyStr(Lit("INVALID_TYPE")), PyStr(Lit("latest")), None},
                y \in {None, PyInt(123),
                       PyStr(Lit("49590338271490256608559692538361571095921575989136588898"))},
                z \in TimestampArgs,
                n \in {None, ValidName}, r \in {None, ValidArn}}
        \cup {[get_shard_iterator_base EXCEPT !.shard_iterator_type = x,
                  !.stream_name = n, !.stream_arn = r] :
                x \in {PyStr(Lit("INVALID_TYPE")), PyStr(Lit("LATEST"))},
                n \in NameArgs, r \in ArnArgs}
        \cup RegionNameArgs(get_shard_iterator_base) ) :
        Tool("get_shard_iterator", a, get_shard_iterator_checks(a),
             get_shard_iterator_params(a), a.region_name)

(***************************************************************************)
(* Tag maps                                                                *)
(***************************************************************************)
\* the tag map of k entries key-x, key-xx, ... with short values
Tags(k) ==
    PyDict([i \in 1..k |-> <<PyStr(Lit("key-") \o Chars("x", i)), PyStr(Lit("value"))>>])
\* the tag map of one entry
Tag1(key, value) == PyDict(<< <<key, value>> >>)

TagsArgs ==
    {None, PyDict(<<>>), PyStr(Lit("not-a-dict")), Tags(1),
     Tag1(PyStr(<<>>), PyStr(Lit("value"))),
     Tag1(PyInt(123), PyStr(Lit("value"))),
     Tag1(PyStr(Lit("key")), PyInt(123)),
     Tag1(PyStr(Chars("a", MAX_TAG_KEY_LENGTH)), PyStr(<<>>))}
    \cup {Tags(k) : k \in MAX_TAGS_COUNT..(MAX_TAGS_COUNT + Slack)}
    \cup {Tag1(PyStr(Chars("a", k)), PyStr(Lit("value"))) :
            k \in MAX_TAG_KEY_LENGTH..(MAX_TAG_KEY_LENGTH + Slack)}
    \cup {Tag1(PyStr(Chars("a", MAX_TAG_KEY_LENGTH)), PyStr(Chars("v", k))) :
            k \in MAX_TAG_VALUE_LENGTH..(MAX_TAG_VALUE_LENGTH + Slack)}

\* for key, value in tags.items(): type, key length, value length
\* as tag_item_checks, with no upper bound on the length of a key
tag_item_checks_key_unbounded(tags) ==
    [j \in 1..(3 * Len(tags.items)) |->
        LET key == tags.items[((j - 1) \div 3) + 1][1]
            value == tags.items[((j - 1) \div 3) + 1][2]
        IN  CASE (j - 1) % 3 = 0 ->
                   Check(~isinstance(key, {"str"}) \/ ~isinstance(value, {"str"}),
                         "TypeError", "Tag keys and values must be strings")
              [] (j - 1) % 3 = 1 ->
                   Check(len(key) < MIN_TAG_KEY_LENGTH,
                         "ValueError", "Tag key length must be between 1 and 128 characters")
              [] OTHER ->
                   Check(len(value) > MAX_TAG_VALUE_LENGTH,
                         "ValueError", "Tag value length cannot exceed 256 characters")]

tag_item_checks(tags) ==
    [j \in 1..(3 * Len(tags.items)) |->
        LET key == tags.items[((j - 1) \div 3) + 1][1]
            value == tags.items[((j - 1) \div 3) + 1][2]
        IN  CASE (j - 1) % 3 = 0 ->
                   Check(~isinstance(key, {"str"}) \/ ~isinstance(value, {"str"}),
                         "TypeError", "Tag keys and values must be strings")
              [] (j - 1) % 3 = 1 ->
                   Check(len(key) < MIN_TAG_KEY_LENGTH \/ len(key) > MAX_TAG_KEY_LENGTH,
                         "ValueError", "Tag key length must be between 1 and 128 characters")
              [] OTHER ->
                   Check(len(value) > MAX_TAG_VALUE_LENGTH,
                         "ValueError", "Tag value length cannot exceed 256 characters")]

(***************************************************************************)
(* server.py: add_tags_to_stream                                           *)
(***************************************************************************)
\* stream_name and stream_arn are only tested for None; they are forwarded
\* without a check of their type, characters or length
add_tags_to_stream_checks(a) ==
    << stream_identification_check(a.stream_name, a.stream_arn),
       Check(~truthy(a.tags), "ValueError", "tags is required"),
       Check(~isinstance(a.tags, {"dict"}), "TypeError", "tags must be a dictionary"),
       Check(len(a.tags) > MAX_TAGS_COUNT, "ValueError", "Number of tags cannot exceed 50") >>
    \o tag_item_checks(a.tags)

add_tags_to_stream_params(a) ==
    WithOpt(WithOpt(With(EmptyParams, "Tags", a.tags),
                    "StreamName", a.stream_name),
            "StreamARN", a.stream_arn)

add_tags_to_stream_base ==
    [tags |-> Tags(1), stream_name |-> ValidName, stream_arn |-> None,
     region_name |-> DefaultRegion]

add_tags_to_stream ==
    \E a \in
      ( {[add_tags_to_stream_base EXCEPT !.tags = x] : x \in TagsArgs}
        \cup IdentifierArgs(add_tags_to_stream_base)
        \cup RegionNameArgs(add_tags_to_stream_base) ) :
        Tool("add_tags_to_stream", a, add_tags_to_stream_checks(a),
             add_tags_to_stream_params(a), a.region_name)

(***************************************************************************)
(* server.py: create_stream                                                *)
(***************************************************************************)
\* stream_name.lower().startswith('aws:')
lower_startswith_aws(v) ==
    v.s # <<>> /\ v.s[1][1] \in {"aws:stream", "AWS:stream", "Aws:stream"}

StreamModeDetails(mode) == PyDict(<< <<PyStr(Lit("StreamMode")), PyStr(Lit(mode))>> >>)
\* the default value of the argument stream_mode_details
DefaultStreamModeDetails == StreamModeDetails(STREAM_MODE_ON_DEMAND)

create_stream_checks(a) ==
    << Check(~truthy(a.stream_name), "ValueError", "stream_name is required"),
       Check(~isinstance(a.stream_name, {"str"}), "TypeError", "stream_name must be a string"),
       Check(len(a.stream_name) < MIN_STREAM_NAME_LENGTH
               \/ len(a.stream_name) > MAX_STREAM_NAME_LENGTH, "ValueError",
             "stream_name length must be between 1 and 128 characters"),
       Check(~re_match_name(a.stream_name), "ValueError",
             "stream_name can only contain alphanumeric characters, hyphens, underscores, and periods"),
       Check(lower_startswith_aws(a.stream_name), "ValueError",
             "stream_name cannot start with \"aws:\""),
       Check(a.shard_count.t # "none" /\ ~isinstance(a.shard_count, {"int"}),
             "TypeError", "shard_count must be an integer"),
       Check(/\ a.shard_count.t # "none"
             /\ (a.shard_count.n < MIN_SHARDS_PER_STREAM \/ a.shard_count.n > MAX_SHARDS_PER_STREAM),
             "ValueError", "shard_count must be between 1 and 500"),
       Check(a.stream_mode_details.t # "none" /\ ~isinstance(a.stream_mode_details, {"dict"}),
             "TypeError", "stream_mode_details must be a dictionary") >>
    \o (IF a.tags.t = "none" THEN <<>>
        ELSE << Check(~isinstance(a.tags, {"dict"}), "TypeError", "tags must be a dictionary"),
                Check(len(a.tags) > MAX_TAGS_COUNT, "ValueError",
                      "Number of tags cannot exceed 50") >>
             \o tag_item_checks(a.tags))
    \* stream_mode_details.get('StreamMode') while the parameters are built
    \o << Check(a.stream_mode_details.t = "none", "AttributeError",
                "'NoneType' object has no attribute 'get'") >>

\* as create_stream_params, with ShardCount added in every stream mode
create_stream_params_any_mode(a) ==
    LET p1 == With(With(EmptyParams, "StreamName", a.stream_name),
                   "StreamModeDetails", a.stream_mode_details)
        p2 == With(p1, "ShardCount",
                   IF a.shard_count.t = "none" THEN PyInt(DEFAULT_SHARD_COUNT)
                   ELSE a.shard_count)
    IN  WithOpt(p2, "Tags", a.tags)

create_stream_params(a) ==
    LET p1 == With(With(EmptyParams, "StreamName", a.stream_name),
                   "StreamModeDetails", a.stream_mode_details)
        p2 == IF eq_text(dict_get(a.stream_mode_details, "StreamMode"), STREAM_MODE_PROVISIONED)
              THEN With(p1, "ShardCount",
                        IF a.shard_count.t = "none" THEN PyInt(DEFAULT_SHARD_COUNT)
                        ELSE a.shard_count)
              ELSE p1
    IN  WithOpt(p2, "Tags", a.tags)

create_stream_base ==
    [stream_name |-> PyStr(Lit("test")), shard_count |-> None,
     stream_mode_details |-> stream_mode_default, tags |-> None,
     region_name |-> DefaultRegion]

create_stream ==
    \E a \in
      ( {[create_stream_base EXCEPT !.stream_name = x] :
            x \in NameArgs \cup {PyStr(Lit("aws:stream"))}}
        \cup {[create_stream_base EXCEPT !.shard_count = x, !.stream_mode_details = y] :
                x \in IntArgs(MIN_SHARDS_PER_STREAM, MAX_SHARDS_PER_STREAM),
                y \in {DefaultStreamModeDetails, StreamModeDetails(STREAM_MODE_PROVISIONED),
                       PyDict(<<>>), PyStr(Lit("PROVISIONED")), None}}
        \cup {[create_stream_base EXCEPT !.tags = x] : x \in TagsArgs}
        \cup RegionNameArgs(create_stream_base) ) :
        Tool("create_stream", a, create_stream_checks(a), create_stream_params(a),
             a.region_name)

(***************************************************************************)
(* server.py: tag_resource                                                 *)
(***************************************************************************)
\* the resource ARN all resource tools check in the same way
resource_arn_checks(resource_arn, required, length) ==
    << Check(~truthy(resource_arn), "ValueError", required),
       Check(~isinstance(resource_arn, {"str"}), "TypeError", "resource_arn must be a string"),
       Check(len(resource_arn) < MIN_STREAM_ARN_LENGTH
               \/ len(resource_arn) > MAX_STREAM_ARN_LENGTH, "ValueError", length) >>

\* of the tag map only the type is checked
tag_resource_checks(a) ==
    resource_arn_checks(a.resource_arn, "resource_arn is required",
                        "resource_arn length must be between 1 and 2048 characters")
    \o << Check(~isinstance(a.tags, {"dict"}), "TypeError", "tags must be a dictionary") >>

tag_resource_params(a) ==
    With(With(EmptyParams, "ResourceARN", a.resource_arn), "Tags", a.tags)

tag_resource_base ==
    [resource_arn |-> ValidArn, tags |-> Tags(1), region_name |-> DefaultRegion]

tag_resource ==
    \E a \in
      ( {[tag_resource_base EXCEPT !.resource_arn = x] : x \in ArnArgs}
        \cup {[tag_resource_base EXCEPT !.tags = x] : x \in TagsArgs}
        \cup RegionNameArgs(tag_resource_base) ) :
        Tool("tag_resource", a, tag_resource_checks(a), tag_resource_params(a),
             a.region_name)

(***************************************************************************)
(* server.py: describe_stream                                              *)
(***************************************************************************)
\* if limit is not None: type, range
limit_checks(limit, lo, hi, text) ==
    IF limit.t = "none" THEN <<>>
    ELSE << Check(~isinstance(limit, {"int"}), "TypeError", "limit must be an integer"),
            Check(limit.n < lo \/ limit.n > hi, "ValueError", text) >>

\* if exclusive_start_shard_id is not None: type, allowed characters, length
\* as exclusive_start_shard_id_checks, with the length compared before the
\* maximum is reached
exclusive_start_shard_id_checks_below_max(shard_id) ==
    IF shard_id.t = "none" THEN <<>>
    ELSE << Check(~isinstance(shard_id, {"str"}), "TypeError",
                  "exclusive_start_shard_id must be a string"),
            Check(~re_match_shard_id(shard_id), "ValueError",
                  "exclusive_start_shard_id can only contain alphanumeric characters, underscores, periods, and hyphens"),
            Check(len(shard_id) < MIN_SHARD_ID_LENGTH \/ len(shard_id) >= MAX_SHARD_ID_LENGTH,
                  "ValueError",
                  "exclusive_start_shard_id length must be between 1 and 128 characters") >>

exclusive_start_shard_id_checks(shard_id) ==
    IF shard_id.t = "none" THEN <<>>
    ELSE << Check(~isinstance(shard_id, {"str"}), "TypeError",
                  "exclusive_start_shard_id must be a string"),
            Check(~re_match_shard_id(shard_id), "ValueError",
                  "exclusive_start_shard_id can only contain alphanumeric characters, underscores, periods, and hyphens"),
            Check(len(shard_id) < MIN_SHARD_ID_LENGTH \/ len(shard_id) > MAX_SHARD_ID_LENGTH,
                  "ValueError",
                  "exclusive_start_shard_id length must be between 1 and 128 characters") >>

describe_stream_checks(a) ==
    << stream_identification_check(a.stream_name, a.stream_arn) >>
    \o stream_name_checks(a.stream_name)
    \o stream_arn_checks(a.stream_arn)
    \o limit_checks(a.limit, MIN_LIMIT, MAX_LIMIT, "limit must be between 1 and 10000")
    \o exclusive_start_shard_id_checks(a.exclusive_start_shard_id)

describe_stream_params(a) ==
    WithOpt(WithOpt(WithOpt(WithOpt(EmptyParams,
        "StreamName", a.stream_name),
        "StreamARN", a.stream_arn),
        "Limit", a.limit),
        "ExclusiveStartShardId", a.exclusive_start_shard_id)

describe_stream_base ==
    [stream_name |-> ValidName, stream_arn |-> None, limit |-> PyInt(DEFAULT_STREAM_LIMIT),
     exclusive_start_shard_id |-> None, region_name |-> DefaultRegion]

describe_stream ==
    \E a \in
      ( IdentifierArgs(describe_stream_base)
        \cup {[describe_stream_base EXCEPT !.limit = x] : x \in IntArgs(MIN_LIMIT, MAX_LIMIT)}
        \cup {[describe_stream_base EXCEPT !.exclusive_start_shard_id = x] : x \in ShardIdArgs}
        \cup RegionNameArgs(describe_stream_base) ) :
        Tool("describe_stream", a, describe_stream_checks(a), describe_stream_params(a),
             a.region_name)

(***************************************************************************)
(* server.py: enable_enhanced_monitoring                                   *)
(***************************************************************************)
\* the names of VALID_SHARD_LEVEL_METRICS in the order of consts.py
MetricNames ==
    << "IncomingBytes", "IncomingRecords", "OutgoingBytes", "OutgoingRecords",
       "WriteProvisionedThroughputExceeded", "ReadProvisionedThroughputExceeded",
       "IteratorAgeMilliseconds", "All" >>
\* a list of k valid metric names (distinct as long as k is at most 8)
Metrics(k) == PyList([i \in 1..k |-> PyStr(Lit(MetricNames[((i - 1) % Len(MetricNames)) + 1]))])

\* for _ in shard_level_metrics: if _ not in VALID_SHARD_LEVEL_METRICS
metric_item_checks(metrics) ==
    [i \in 1..Len(metrics.items) |->
        CheckNames(~in_texts(metrics.items[i], VALID_SHARD_LEVEL_METRICS), "ValueError",
                   "Invalid metric in shard_level_metrics", VALID_SHARD_LEVEL_METRICS)]

\* as enable_enhanced_monitoring_checks, with room for every valid name
enable_enhanced_monitoring_checks_all_names(a) ==
    << Check(~truthy(a.shard_level_metrics), "ValueError", "shard_level_metrics is required"),
       Check(~isinstance(a.shard_level_metrics, {"list"}), "TypeError",
             "shard_level_metrics must be a list"),
       Check(len(a.shard_level_metrics) < MIN_SHARD_LEVEL_METRICS
               \/ len(a.shard_level_metrics) > Cardinality(VALID_SHARD_LEVEL_METRICS), "ValueError",
             "Number of shard_level_metrics must be between 1 and 7") >>
    \o metric_item_checks(a.shard_level_metrics)
    \o << stream_identification_check(a.stream_name, a.stream_arn) >>
    \o stream_name_checks(a.stream_name)
    \o stream_arn_checks(a.stream_arn)

enable_enhanced_monitoring_checks(a) ==
    << Check(~truthy(a.shard_level_metrics), "ValueError", "shard_level_metrics is required"),
       Check(~isinstance(a.shard_level_metrics, {"list"}), "TypeError",
             "shard_level_metrics must be a list"),
       Check(len(a.shard_level_metrics) < MIN_SHARD_LEVEL_METRICS
               \/ len(a.shard_level_metrics) > MAX_SHARD_LEVEL_METRICS, "ValueError",
             "Number of shard_level_metrics must be between 1 and 7") >>
    \o metric_item_checks(a.shard_level_metrics)
    \o << stream_identification_check(a.stream_name, a.stream_arn) >>
    \o stream_name_checks(a.stream_name)
    \o stream_arn_checks(a.stream_arn)

enable_enhanced_monitoring_params(a) ==
    WithOpt(WithOpt(With(EmptyParams, "ShardLevelMetrics", a.shard_level_metrics),
                    "StreamName", a.stream_name),
            "StreamARN", a.stream_arn)

enable_enhanced_monitoring_base ==
    [shard_level_metrics |-> Metrics(1), stream_name |-> ValidName, stream_arn |-> None,
     region_name |-> DefaultRegion]

enable_enhanced_monitoring ==
    \E a \in
      ( {[enable_enhanced_monitoring_base EXCEPT !.shard_level_metrics = x] :
            x \in {None, PyList(<<>>), PyStr(Lit("IncomingBytes")), Metrics(1),
                   PyList(<<PyStr(Lit("All"))>>),
                   PyList(<<PyStr(Lit("InvalidMetric"))>>),
                   PyList(<<PyStr(Lit("IncomingBytes")), PyStr(Lit("IncomingBytes"))>>),
                   PyList(<<PyStr(Lit("IncomingBytes")), PyStr(Lit("InvalidMetric"))>>)}
                  \cup {Metrics(k) :
                          k \in MAX_SHARD_LEVEL_METRICS..(MAX_SHARD_LEVEL_METRICS + Slack)}}
        \cup IdentifierArgs(enable_enhanced_monitoring_base)
        \cup RegionNameArgs(enable_enhanced_monitoring_base) ) :
        Tool("enable_enhanced_monitoring", a, enable_enhanced_monitoring_checks(a),
             enable_enhanced_monitoring_params(a), a.region_name)

(***************************************************************************)
(* server.py: list_shards                                                  *)
(***************************************************************************)
\* if next_token is not None: type
next_token_checks(next_token) ==
    << Check(next_token.t # "none" /\ ~isinstance(next_token, {"str"}), "TypeError",
             "next_token must be a string") >>

\* if max_results is not None: type, range
max_results_checks(max_results) ==
    IF max_results.t = "none" THEN <<>>
    ELSE << Check(~isinstance(max_results, {"int"}), "TypeError",
                  "max_results must be an integer"),
            Check(max_results.n < MIN_RESULTS_PER_STREAM
                    \/ max_results.n > MAX_RESULTS_PER_STREAM, "ValueError",
                  "max_results must be between 1 and 1000") >>

NextTokenArgs == {None, PyStr(Lit("token")), PyInt(123)}

list_shards_checks(a) ==
    << stream_identification_check(a.stream_name, a.stream_arn) >>
    \o stream_name_checks(a.stream_name)
    \o stream_arn_checks(a.stream_arn)
    \o exclusive_start_shard_id_checks(a.exclusive_start_shard_id)
    \o next_token_checks(a.next_token)
    \o max_results_checks(a.max_results)

list_shards_params(a) ==
    WithOpt(WithOpt(WithOpt(WithOpt(WithOpt(EmptyParams,
        "ExclusiveStartShardId", a.exclusive_start_shard_id),
        "StreamName", a.stream_name),
        "StreamARN", a.stream_arn),
        "NextToken", a.next_token),
        "MaxResults", a.max_results)

list_shards_base ==
    [exclusive_start_shard_id |-> None, stream_name |-> ValidName, stream_arn |-> None,
     next_token |-> None, max_results |-> PyInt(DEFAULT_MAX_RESULTS),
     region_name |-> DefaultRegion]

list_shards ==
    \E a \in
      ( IdentifierArgs(list_shards_base)
        \cup {[list_shards_base EXCEPT !.exclusive_start_shard_id = x] : x \in ShardIdArgs}
        \cup {[list_shards_base EXCEPT !.next_token = x] : x \in NextTokenArgs}
        \cup {[list_shards_base EXCEPT !.max_results = x] :
                x \in IntArgs(MIN_RESULTS_PER_STREAM, MAX_RESULTS_PER_STREAM)}
        \cup RegionNameArgs(list_shards_base) ) :
        Tool("list_shards", a, list_shards_checks(a), list_shards_params(a), a.region_name)

(***************************************************************************)
(* server.py: list_tags_for_stream                                         *)
(***************************************************************************)
list_tags_for_stream_checks(a) ==
    << stream_identification_check(a.stream_name, a.stream_arn) >>
    \o stream_name_checks(a.stream_name)
    \o stream_arn_checks(a.stream_arn)
    \o << Check(/\ a.exclusive_start_tag_key.t # "none"
                /\ ~isinstance(a.exclusive_start_tag_key, {"str"}),
                "TypeError", "exclusive_start_tag_key must be a string") >>
    \o limit_checks(a.limit, MIN_LIMIT, MAX_LIMIT, "limit must be between 1 and 10000")

list_tags_for_stream_params(a) ==
    WithOpt(WithOpt(WithOpt(WithOpt(EmptyParams,
        "ExclusiveStartTagKey", a.exclusive_start_tag_key),
        "StreamName", a.stream_name),
        "StreamARN", a.stream_arn),
        "Limit", a.limit)

list_tags_for_stream_base ==
    [exclusive_start_tag_key |-> None, stream_name |-> ValidName, stream_arn |-> None,
     limit |-> None, region_name |-> DefaultRegion]

list_tags_for_stream ==
    \E a \in
      ( IdentifierArgs(list_tags_for_stream_base)
        \cup {[list_tags_for_stream_base EXCEPT !.exclusive_start_tag_key = x] :
                x \in {None, PyStr(Lit("key")), PyInt(123)}}
        \cup {[list_tags_for_stream_base EXCEPT !.limit = x] : x \in IntArgs(MIN_LIMIT, MAX_LIMIT)}
        \cup RegionNameArgs(list_tags_for_stream_base) ) :
        Tool("list_tags_for_stream", a, list_tags_for_stream_checks(a),
             list_tags_for_stream_params(a), a.region_name)

(***************************************************************************)
(* server.py: increase_stream_retention_period                             *)
(***************************************************************************)
increase_stream_retention_period_checks(a) ==
    << Check(~isinstance(a.retention_period_hours, {"int"}), "TypeError",
             "retention_period_hours must be an integer"),
       stream_identification_check(a.stream_name, a.stream_arn) >>
    \o stream_name_checks(a.stream_name)
    \o stream_arn_checks(a.stream_arn)

\* describe_params
increase_stream_retention_period_describe_params(a) ==
    WithOpt(WithOpt(EmptyParams, "StreamName", a.stream_name), "StreamARN", a.stream_arn)

increase_stream_retention_period_params(a) ==
    WithOpt(WithOpt(With(EmptyParams, "RetentionPeriodHours", a.retention_period_hours),
                    "StreamName", a.stream_name),
            "StreamARN", a.stream_arn)

\* as increase_stream_retention_period_body, without the comparison with the
\* current retention period
increase_stream_retention_period_body_unchecked(a, e, ext) ==
    LET v == FirstFailure(increase_stream_retention_period_checks(a))
        k == get_kinesis_client(a.region_name, e, ext)
        describe == Request("describe_stream",
                            increase_stream_retention_period_describe_params(a), k.value)
        increase == Request("increase_stream_retention_period",
                            increase_stream_retention_period_params(a), k.value)
    IN  IF v.fail THEN [res |-> RaiseOf(v), sent |-> <<>>, client |-> NoClient]
        ELSE IF k.kind = "raise" THEN [res |-> k, sent |-> <<>>, client |-> FailedClient]
        ELSE IF k.value.t = "none"
             THEN [res |-> NoneTypeError, sent |-> <<>>, client |-> FailedClient]
        ELSE IF ext.reply # "ok"
             THEN [res |-> Raise(ext.reply, ""), sent |-> <<describe>>, client |-> k.value]
        ELSE [res |-> IF ext.reply2 = "ok"
                      THEN Return(Response("increase_stream_retention_period",
                                           increase_stream_retention_period_params(a),
                                           ext.answer))
                      ELSE Raise(ext.reply2, ""),
              sent |-> <<describe, increase>>, client |-> k.value]

\* as increase_stream_retention_period_body, raising only when
\* retention_period_hours is below the current retention period
increase_stream_retention_period_body_strict(a, e, ext) ==
    LET v == FirstFailure(increase_stream_retention_period_checks(a))
        k == get_kinesis_client(a.region_name, e, ext)
        describe == Request("describe_stream",
                            increase_stream_retention_period_describe_params(a), k.value)
        increase == Request("increase_stream_retention_period",
                            increase_stream_retention_period_params(a), k.value)
    IN  IF v.fail THEN [res |-> RaiseOf(v), sent |-> <<>>, client |-> NoClient]
        ELSE IF k.kind = "raise" THEN [res |-> k, sent |-> <<>>, client |-> FailedClient]
        ELSE IF k.value.t = "none"
             THEN [res |-> NoneTypeError, sent |-> <<>>, client |-> FailedClient]
        ELSE IF ext.reply # "ok"
             THEN [res |-> Raise(ext.reply, ""), sent |-> <<describe>>, client |-> k.value]
        ELSE IF a.retention_period_hours.n < ext.retention
             THEN [res |-> Raise("ValueError",
                                 "retention_period_hours must be greater than the current retention period"),
                   sent |-> <<describe>>, client |-> k.value]
        ELSE [res |-> IF ext.reply2 = "ok"
                      THEN Return(Response("increase_stream_retention_period",
                                           increase_stream_retention_period_params(a),
                                           ext.answer))
                      ELSE Raise(ext.reply2, ""),
              sent |-> <<describe, increase>>, client |-> k.value]

\* the body: checks, client, describe_stream, the comparison with the current
\* retention period, then the request itself
increase_stream_retention_period_body(a, e, ext) ==
    LET v == FirstFailure(increase_stream_retention_period_checks(a))
        k == get_kinesis_client(a.region_name, e, ext)
        describe == Request("describe_stream",
                            increase_stream_retention_period_describe_params(a), k.value)
        increase == Request("increase_stream_retention_period",
                            increase_stream_retention_period_params(a), k.value)
    IN  IF v.fail THEN [res |-> RaiseOf(v), sent |-> <<>>, client |-> NoClient]
        ELSE IF k.kind = "raise" THEN [res |-> k, sent |-> <<>>, client |-> FailedClient]
        ELSE IF k.value.t = "none"
             THEN [res |-> NoneTypeError, sent |-> <<>>, client |-> FailedClient]
        ELSE IF ext.reply # "ok"
             THEN [res |-> Raise(ext.reply, ""), sent |-> <<describe>>, client |-> k.value]
        ELSE IF a.retention_period_hours.n <= ext.retention
             THEN [res |-> Raise("ValueError",
                                 "retention_period_hours must be greater than the current retention period"),
                   sent |-> <<describe>>, client |-> k.value]
        ELSE [res |-> IF ext.reply2 = "ok"
                      THEN Return(Response("increase_stream_retention_period",
                                           increase_stream_retention_period_params(a),
                                           ext.answer))
                      ELSE Raise(ext.reply2, ""),
              sent |-> <<describe, increase>>, client |-> k.value]

increase_stream_retention_period_base ==
    [retention_period_hours |-> PyInt(49), stream_name |-> ValidName, stream_arn |-> None,
     region_name |-> DefaultRegion]

increase_stream_retention_period ==
    \E a \in
      ( {[increase_stream_retention_period_base EXCEPT !.retention_period_hours = x] :
            x \in {None, PyStr(Lit("48")), PyInt(24), PyInt(48), PyInt(49), PyInt(8760)}}
        \cup IdentifierArgs(increase_stream_retention_period_base)
        \cup RegionNameArgs(increase_stream_retention_period_base) ) :
      /\ call = NoCall
      /\ \E ext \in ExtFor(increase_stream_retention_period_checks(a), Ext2) :
            Invocation("increase_stream_retention_period", a, ext,
                       increase_stream_retention_period_body(a, env, ext))

(***************************************************************************)
(* server.py: get_records                                                  *)
(***************************************************************************)
\* len(v) raises TypeError for a value without a length
sized(v) == v.t \in {"str", "list", "dict"}

get_records_checks(a) ==
    << Check(~truthy(a.shard_iterator), "ValueError", "shard_iterator is required"),
       Check(~sized(a.shard_iterator), "TypeError", "object has no len()"),
       Check(len(a.shard_iterator) < MIN_LENGTH_SHARD_ITERATOR
               \/ len(a.shard_iterator) > MAX_LENGTH_SHARD_ITERATOR, "ValueError",
             "shard_iterator length must be between 1 and 512 characters") >>
    \o limit_checks(a.limit, MIN_LIMIT, MAX_LIMIT, "limit must be between 1 and 10000")
    \o (IF a.stream_arn.t = "none" THEN <<>>
        ELSE << Check(~sized(a.stream_arn), "TypeError", "object has no len()"),
                Check(len(a.stream_arn) < MIN_STREAM_ARN_LENGTH
                        \/ len(a.stream_arn) > MAX_STREAM_ARN_LENGTH, "ValueError",
                      "stream_arn length must be between 1 and 2048 characters") >>)

get_records_params(a) ==
    WithOpt(WithOpt(With(EmptyParams, "ShardIterator", a.shard_iterator),
                    "Limit", a.limit),
            "StreamARN", a.stream_arn)

get_records_base ==
    [shard_iterator |-> PyStr(Lit("AAAAAAAAAAHSywljv0zEgPX4NyKdZ5wryMzP9yALs8NeKbUjp1IxtZs1Sp")),
     limit |-> PyInt(DEFAULT_GET_RECORDS_LIMIT), stream_arn |-> None,
     region_name |-> DefaultRegion]

get_records ==
    \E a \in
      ( {[get_records_base EXCEPT !.shard_iterator = x] :
            x \in {None, PyInt(5), PyStr(<<>>), get_records_base.shard_iterator}
                  \cup {PyStr(Chars("a", k)) :
                          k \in MAX_LENGTH_SHARD_ITERATOR..(MAX_LENGTH_SHARD_ITERATOR + Slack)}}
        \cup {[get_records_base EXCEPT !.limit = x] : x \in IntArgs(MIN_LIMIT, MAX_LIMIT)}
        \cup {[get_records_base EXCEPT !.stream_arn = x] : x \in ArnArgs}
        \cup RegionNameArgs(get_records_base) ) :
        Tool("get_records", a, get_records_checks(a), get_records_params(a), a.region_name)

(***************************************************************************)
(* server.py: list_streams                                                 *)
(***************************************************************************)
list_streams_checks(a) ==
    (IF a.exclusive_start_stream_name.t = "none" THEN <<>>
     ELSE << Check(~isinstance(a.exclusive_start_stream_name, {"str"}), "TypeError",
                   "exclusive_start_stream_name must be a string"),
             Check(len(a.exclusive_start_stream_name) < MIN_STREAM_NAME_LENGTH
                     \/ len(a.exclusive_start_stream_name) > MAX_STREAM_NAME_LENGTH,
                   "ValueError",
                   "exclusive_start_stream_name length must be between 1 and 128 characters") >>)
    \o limit_checks(a.limit, 1, DEFAULT_STREAM_LIMIT, "limit must be between 1 and 100")
    \o next_token_checks(a.next_token)

list_streams_params(a) ==
    WithOpt(WithOpt(WithOpt(EmptyParams,
        "ExclusiveStartStreamName", a.exclusive_start_stream_name),
        "Limit", a.limit),
        "NextToken", a.next_token)

list_streams_base ==
    [exclusive_start_stream_name |-> None, limit |-> PyInt(DEFAULT_STREAM_LIMIT),
     next_token |-> None, region_name |-> DefaultRegion]

list_streams ==
    \E a \in
      ( {[list_streams_base EXCEPT !.exclusive_start_stream_name = x] : x \in NameArgs}
        \cup {[list_streams_base EXCEPT !.limit = x] : x \in IntArgs(1, DEFAULT_STREAM_LIMIT)}
        \cup {[list_streams_base EXCEPT !.next_token = x] : x \in NextTokenArgs}
        \cup RegionNameArgs(list_streams_base) ) :
        Tool("list_streams", a, list_streams_checks(a), list_streams_params(a), a.region_name)

(***************************************************************************)
(* server.py: describe_stream_consumer                                     *)
(***************************************************************************)
\* if not stream_arn: required; type; length
required_stream_arn_checks(stream_arn) ==
    << Check(~truthy(stream_arn), "ValueError", "stream_arn is required"),
       Check(~isinstance(stream_arn, {"str"}), "TypeError", "stream_arn must be a string"),
       Check(len(stream_arn) < MIN_STREAM_ARN_LENGTH
               \/ len(stream_arn) > MAX_STREAM_ARN_LENGTH, "ValueError",
             "stream_arn length must be between 1 and 2048 characters") >>

describe_stream_consumer_checks(a) ==
    << Check(~truthy(a.consumer_name) /\ ~truthy(a.stream_arn), "ValueError",
             "Either consumer_name or stream_arn must be provided"),
       Check(~truthy(a.consumer_name), "ValueError", "consumer_name is required"),
       Check(~isinstance(a.consumer_name, {"str"}), "TypeError",
             "consumer_name must be a string") >>
    \o required_stream_arn_checks(a.stream_arn)

describe_stream_consumer_params(a) ==
    WithOpt(WithOpt(WithOpt(EmptyParams,
        "ConsumerName", a.consumer_name),
        "StreamARN", a.stream_arn),
        "ConsumerARN", a.consumer_arn)

describe_stream_consumer_base ==
    [consumer_name |-> PyStr(Lit("test-consumer")), stream_arn |-> ValidArn,
     consumer_arn |-> None, region_name |-> DefaultRegion]

describe_stream_consumer ==
    \E a \in
      ( {[describe_stream_consumer_base EXCEPT !.consumer_name = x, !.consumer_arn = y,
             !.stream_arn = z] :
            x \in {None, PyStr(<<>>), PyInt(123), PyStr(Lit("test-consumer"))},
            y \in {None, PyStr(ValidArn.s \o Lit("/consumer/test-consumer:1"))},
            z \in {None, ValidArn}}
        \cup {[describe_stream_consumer_base EXCEPT !.stream_arn = x] : x \in ArnArgs}
        \cup RegionNameArgs(describe_stream_consumer_base) ) :
        Tool("describe_stream_consumer", a, describe_stream_consumer_checks(a),
             describe_stream_consumer_params(a), a.region_name)

(***************************************************************************)
(* server.py: list_stream_consumers                                        *)
(***************************************************************************)
list_stream_consumers_checks(a) ==
    required_stream_arn_checks(a.stream_arn)
    \o next_token_checks(a.next_token)
    \o max_results_checks(a.max_results)

list_stream_consumers_params(a) ==
    WithOpt(WithOpt(WithOpt(With(EmptyParams, "StreamARN", a.stream_arn),
        "NextToken", a.next_token),
        "StreamCreationTimestamp", a.stream_creation_time_stamp),
        "MaxResults", a.max_results)

list_stream_consumers_base ==
    [stream_arn |-> ValidArn, next_token |-> None, stream_creation_time_stamp |-> None,
     max_results |-> PyInt(DEFUALT_MAX_RESULTS), region_name |-> DefaultRegion]

list_stream_consumers ==
    \E a \in
      ( {[list_stream_consumers_base EXCEPT !.stream_arn = x] : x \in ArnArgs}
        \cup {[list_stream_consumers_base EXCEPT !.next_token = x] : x \in NextTokenArgs}
        \cup {[list_stream_consumers_base EXCEPT !.stream_creation_time_stamp = x] :
                x \in TimestampArgs}
        \cup {[list_stream_consumers_base EXCEPT !.max_results = x] :
                x \in IntArgs(MIN_RESULTS_PER_STREAM, MAX_RESULTS_PER_STREAM)}
        \cup RegionNameArgs(list_stream_consumers_base) ) :
        Tool("list_stream_consumers", a, list_stream_consumers_checks(a),
             list_stream_consumers_params(a), a.region_name)

(***************************************************************************)
(* server.py: list_tags_for_resource                                       *)
(***************************************************************************)
list_tags_for_resource_checks(a) ==
    resource_arn_checks(a.resource_arn, "stream_arn is required",
                        "stream_arn length must be between 1 and 2048 characters")

\* the client is created by get_kinesis_client() without an argument
list_tags_for_resource ==
    \E a \in
      ( {[resource_arn |-> x] : x \in ArnArgs} ) :
        Tool("list_tags_for_resource", a, list_tags_for_resource_checks(a),
             With(EmptyParams, "ResourceARN", a.resource_arn), DefaultRegion)

(***************************************************************************)
(* server.py: describe_limits                                              *)
(***************************************************************************)
\* no checks and no parameters
describe_limits ==
    \E a \in RegionNameArgs([region_name |-> DefaultRegion]) :
        Tool("describe_limits", a, <<>>, EmptyParams, a.region_name)

(***************************************************************************)
(* server.py: get_resource_policy                                          *)
(***************************************************************************)
get_resource_policy_checks(a) ==
    resource_arn_checks(a.resource_arn, "resource_arn is required",
                        "resource_arn length must be between 1 and 2048 characters")

get_resource_policy_base == [resource_arn |-> ValidArn, region_name |-> DefaultRegion]

get_resource_policy ==
    \E a \in
      ( {[get_resource_policy_base EXCEPT !.resource_arn = x] : x \in ArnArgs}
        \cup RegionNameArgs(get_resource_policy_base) ) :
        Tool("get_resource_policy", a, get_resource_policy_checks(a),
             With(EmptyParams, "ResourceARN", a.resource_arn), a.region_name)

(***************************************************************************)
(* server.py: put_resource_policy                                          *)
(***************************************************************************)
put_resource_policy_checks(a) ==
    resource_arn_checks(a.resource_arn, "resource_arn is required",
                        "resource_arn length must be between 1 and 2048 characters")
    \o << Check(~truthy(a.policy), "ValueError", "policy is required"),
          Check(~isinstance(a.policy, {"str"}), "TypeError", "policy must be a string") >>

put_resource_policy_params(a) ==
    With(With(EmptyParams, "ResourceARN", a.resource_arn), "Policy", a.policy)

put_resource_policy_base ==
    [resource_arn |-> ValidArn, policy |-> PyStr(Lit("{\"Version\": \"2012-10-17\"}")),
     region_name |-> DefaultRegion]

put_resource_policy ==
    \E a \in
      ( {[put_resource_policy_base EXCEPT !.resource_arn = x] : x \in ArnArgs}
        \cup {[put_resource_policy_base EXCEPT !.policy = x] :
                x \in {None, PyStr(<<>>), PyInt(123)}}
        \cup RegionNameArgs(put_resource_policy_base) ) :
        Tool("put_resource_policy", a, put_resource_policy_checks(a),
             put_resource_policy_params(a), a.region_name)

(***************************************************************************)
(* The environment of the process                                          *)
(***************************************************************************)
EnvNames == {"TESTING", "AWS_REGION"}
\* the environment variable name is set, changed or removed between two calls
SetEnv ==
    /\ \E name \in EnvNames :
       \E v \in IF name = "TESTING" THEN {Unset, Set("true"), Set("True"), Set("1")}
                ELSE {Unset, Set(""), Set("eu-west-1")} :
          /\ env[name] # v
          /\ env' = [env EXCEPT ![name] = v]
    /\ call = NoCall
    /\ UNCHANGED <<call, inner, outcome, sent, client, streams, executed, advised,
                   credentials, stream_mode_default>>

\* the invocation is over and the server waits for the next request
Idle ==
    /\ call # NoCall
    /\ call' = NoCall
    /\ inner' = NoOutcome
    /\ outcome' = NoOutcome
    /\ sent' = <<>>
    /\ client' = NoClient
    /\ executed' = 0
    /\ advised' = IF outcome = Return(Advisory) THEN "blocked" ELSE "no"
    /\ UNCHANGED <<env, streams, credentials, stream_mode_default>>

Init ==
    /\ env = [name \in EnvNames |-> Unset]
    /\ call = NoCall
    /\ inner = NoOutcome
    /\ outcome = NoOutcome
    /\ sent = <<>>
    /\ client = NoClient
    /\ streams = {}
    /\ executed = 0
    /\ advised = "no"
    /\ credentials = "testing"
    /\ stream_mode_default = DefaultStreamModeDetails

Next ==
    \/ SetEnv
    \/ Idle
    \/ put_records
    \/ describe_stream_summary
    \/ get_shard_iterator
    \/ add_tags_to_stream
    \/ create_stream
    \/ tag_resource
    \/ describe_stream
    \/ enable_enhanced_monitoring
    \/ list_shards
    \/ list_tags_for_stream
    \/ increase_stream_retention_period
    \/ get_records
    \/ list_streams
    \/ describe_stream_consumer
    \/ list_stream_consumers
    \/ list_tags_for_resource
    \/ describe_limits
    \/ get_resource_policy
    \/ put_resource_policy

Spec == Init /\ [][Next]_vars

(***************************************************************************)
(* The tools under credentials that change between two invocations, the    *)
(* other environment variables left as they are at the start.              *)
(***************************************************************************)
\* AWS_ACCESS_KEY_ID, AWS_SECRET_ACCESS_KEY and AWS_SESSION_TOKEN are replaced
SetCredentials ==
    /\ call = NoCall
    /\ credentials' \in {"testing", "rotated"} \ {credentials}
    /\ UNCHANGED <<env, call, inner, outcome, sent, client, streams, executed, advised,
                   stream_mode_default>>

SessionNext ==
    \/ SetCredentials
    \/ Idle
    \/ put_records
    \/ describe_stream_summary
    \/ get_shard_iterator
    \/ add_tags_to_stream
    \/ create_stream
    \/ tag_resource
    \/ describe_stream
    \/ enable_enhanced_monitoring
    \/ list_shards
    \/ list_tags_for_stream
    \/ increase_stream_retention_period
    \/ get_records
    \/ list_streams
    \/ describe_stream_consumer
    \/ list_stream_consumers
    \/ list_tags_for_resource
    \/ describe_limits
    \/ get_resource_policy
    \/ put_resource_policy

SessionSpec == Init /\ [][SessionNext]_vars

\* ---------------------------------------------------------------------------
\* update_stream_mode, update_shard_count, remove_tags_from_stream,
\* start_stream_encryption and stop_stream_encryption.  server.py does not
\* define these five functions; their argument names, their rejections and the
\* requests they send are those that tests/test_tools.py expects of them.

stream_update_checks_name_unchecked(tool, a) ==
    CASE tool = "update_stream_mode" ->
           << Check(dict_get(a.stream_mode_details, "StreamMode") = None, "ValueError",
                    "stream_mode_details must contain \"StreamMode\" key") >>
      [] tool = "update_shard_count" ->
           << Check(a.target_shard_count.n <= 0, "ValueError",
                    "target_shard_count must be greater than 0"),
              Check(~in_texts(a.scaling_type, {"UNIFORM_SCALING"}), "ValueError",
                    "Invalid scaling_type") >>
      [] tool = "remove_tags_from_stream" ->
           << Check(~isinstance(a.tag_keys, {"list"}), "TypeError", "tag_keys must be a list"),
              Check(~truthy(a.tag_keys), "ValueError", "tag_keys cannot be empty") >>
      [] OTHER ->
           << Check(~in_texts(a.encryption_type, {"KMS"}), "ValueError",
                    "Invalid encryption_type") >>
\* the checks of the operation: a stream name is required, then the
\* operation's own arguments are checked
stream_update_checks(tool, a) ==
    << Check(~truthy(a.stream_name), "ValueError", "stream_name is required") >>
    \o stream_update_checks_name_unchecked(tool, a)

\* the request of the operation: StreamName and the operation's own fields
stream_update_params(tool, a) ==
    LET p == With(EmptyParams, "StreamName", a.stream_name) IN
    CASE tool = "update_stream_mode" -> With(p, "StreamModeDetails", a.stream_mode_details)
      [] tool = "update_shard_count" ->
           With(With(p, "TargetShardCount", a.target_shard_count),
                "ScalingType", a.scaling_type)
      [] tool = "remove_tags_from_stream" -> With(p, "TagKeys", a.tag_keys)
      [] tool = "start_stream_encryption" ->
           With(With(p, "EncryptionType", a.encryption_type), "KeyId", a.key_id)
      [] OTHER -> With(p, "EncryptionType", a.encryption_type)

\* the stream names and regions the operations are called with
StreamUpdateArgs(b) ==
    {[b EXCEPT !.stream_name = x] : x \in {ValidName, PyStr(<<>>)}}
    \cup {[b EXCEPT !.region_name = x] : x \in {DefaultRegion, PyStr(Lit("eu-west-1"))}}

update_stream_mode ==
    \E b \in {[stream_name |-> ValidName, stream_mode_details |-> x,
               region_name |-> DefaultRegion] :
                 x \in {StreamModeDetails(STREAM_MODE_PROVISIONED),
                        PyDict(<< <<PyStr(Lit("InvalidKey")),
                                    PyStr(Lit(STREAM_MODE_ON_DEMAND))>> >>)}} :
    \E a \in StreamUpdateArgs(b) :
        Tool("update_stream_mode", a, stream_update_checks("update_stream_mode", a),
             stream_update_params("update_stream_mode", a), a.region_name)

update_shard_count ==
    \E b \in {[stream_name |-> ValidName, target_shard_count |-> PyInt(n),
               scaling_type |-> PyStr(Lit(x)), region_name |-> DefaultRegion] :
                 n \in {0, 4}, x \in {"UNIFORM_SCALING", "INVALID_TYPE"}} :
    \E a \in StreamUpdateArgs(b) :
        Tool("update_shard_count", a, stream_update_checks("update_shard_count", a),
             stream_update_params("update_shard_count", a), a.region_name)

remove_tags_from_stream ==
    \E b \in {[stream_name |-> ValidName, tag_keys |-> x, region_name |-> DefaultRegion] :
                 x \in {PyList(<<PyStr(Lit("key1")), PyStr(Lit("key2"))>>),
                        PyStr(Lit("not-a-list")), PyList(<<>>)}} :
    \E a \in StreamUpdateArgs(b) :
        Tool("remove_tags_from_stream", a,
             stream_update_checks("remove_tags_from_stream", a),
             stream_update_params("remove_tags_from_stream", a), a.region_name)

start_stream_encryption ==
    \E b \in {[stream_name |-> ValidName, encryption_type |-> PyStr(Lit(x)),
               key_id |-> PyStr(Lit("alias/aws/kinesis")), region_name |-> DefaultRegion] :
                 x \in {"KMS", "INVALID_TYPE"}} :
    \E a \in StreamUpdateArgs(b) :
        Tool("start_stream_encryption", a,
             stream_update_checks("start_stream_encryption", a),
             stream_update_params("start_stream_encryption", a), a.region_name)

stop_stream_encryption ==
    \E b \in {[stream_name |-> ValidName, encryption_type |-> PyStr(Lit(x)),
               region_name |-> DefaultRegion] :
                 x \in {"KMS", "INVALID_TYPE"}} :
    \E a \in StreamUpdateArgs(b) :
        Tool("stop_stream_encryption", a,
             stream_update_checks("stop_stream_encryption", a),
             stream_update_params("stop_stream_encryption", a), a.region_name)

\* the server with the five operations
StreamUpdateNext ==
    \/ SetEnv
    \/ Idle
    \/ update_stream_mode
    \/ update_shard_count
    \/ remove_tags_from_stream
    \/ start_stream_encryption
    \/ stop_stream_encryption

StreamUpdateSpec == Init /\ [][StreamUpdateNext]_vars

(***************************************************************************)
(* A function decorated with @confirm_destruction, called under the        *)
(* environment variables its wrapper and its message name.  The values of  *)
(* these variables are tuples of characters.                               *)
(***************************************************************************)
\* a call of the decorated function, which returns or raises when it runs
wrapper ==
    \E res \in {Return(None), Return(PyStr(Lit("deleted"))), Return(PyDict(<<>>)),
                Raise("ValueError", "stream_name is required"), Raise("ClientError", "")} :
        LET r == confirm_destruction(res, env) IN
        /\ call = NoCall
        /\ call' = [tool |-> "wrapper", args |-> <<>>, service |-> NoExt]
        /\ inner' = r.inner
        /\ outcome' = r.res
        /\ executed' = r.executed
        /\ UNCHANGED <<env, sent, client, streams, advised, credentials,
                       stream_mode_default>>

\* CONFIRM-DESTRUCTION is set, changed or removed between two calls
SetConfirmDestruction ==
    /\ call = NoCall
    /\ \E v \in {[set |-> FALSE, val |-> <<>>]}
              \cup {[set |-> TRUE, val |-> text] :
                      text \in {<<>>, <<"f", "a", "l", "s", "e">>, <<"F", "a", "l", "s", "e">>,
                                <<"F", "A", "L", "S", "E">>, <<"n", "o">>, <<"N", "O">>,
                                <<"N", "o">>, <<"t", "r", "u", "e">>, <<"y", "e", "s">>,
                                <<"n", "o", "n", "e">>, <<"0">>}} :
          /\ env["CONFIRM-DESTRUCTION"] # v
          /\ env' = [env EXCEPT !["CONFIRM-DESTRUCTION"] = v]
    /\ advised' = "no"
    /\ UNCHANGED <<call, inner, outcome, sent, client, streams, executed, credentials,
                   stream_mode_default>>

\* option 1 of the message, taken after a call was blocked
SetConfirmDestructiveAction ==
    /\ call = NoCall
    /\ advised = "blocked"
    /\ env' = [env EXCEPT !["CONFIRM_DESTRUCTIVE_ACTION"] =
                              [set |-> TRUE, val |-> <<"f", "a", "l", "s", "e">>]]
    /\ advised' = "followed"
    /\ UNCHANGED <<call, inner, outcome, sent, client, streams, executed, credentials,
                   stream_mode_default>>

GuardInit ==
    /\ env = [name \in {"CONFIRM-DESTRUCTION", "CONFIRM_DESTRUCTIVE_ACTION"} |->
                [set |-> FALSE, val |-> <<>>]]
    /\ call = NoCall
    /\ inner = NoOutcome
    /\ outcome = NoOutcome
    /\ sent = <<>>
    /\ client = NoClient
    /\ streams = {}
    /\ executed = 0
    /\ advised = "no"
    /\ credentials = "testing"
    /\ stream_mode_default = DefaultStreamModeDetails

GuardNext ==
    \/ SetConfirmDestruction
    \/ SetConfirmDestructiveAction
    \/ wrapper
    \/ Idle

GuardSpec == GuardInit /\ [][GuardNext]_vars

(***************************************************************************)
(* Vocabulary of the properties                                            *)
(***************************************************************************)
Testing == environ_is(env, "TESTING", "true")
Called(tool) == call.tool = tool
\* the tool's own checks passed: the body went on to obtain a client
PassedValidation == call.tool # "" /\ client # NoClient
\* the checks passed and, the client being there, a request went out
Dispatched == PassedValidation /\ (call.service.create = "ok" => sent # <<>>)
RaisedValueError == outcome.kind = "raise" /\ outcome.exc = "ValueError"
\* rejected by a ValueError before anything was sent
RejectedValueError == RaisedValueError /\ sent = <<>> /\ client = NoClient

StrOfLen(v, k) == v.t = "str" /\ len(v) = k
\* identifiers that satisfy the documented format
ValidNames == {ValidName, PyStr(Chars("a", MAX_STREAM_NAME_LENGTH))}
ValidArns == {ValidArn, PyStr(Chars("a", MAX_STREAM_ARN_LENGTH))}

\* the service failed during the invocation: no client, or a request refused
ClientCreationFailed == call.service.create \notin {"ok", "unused"}
FirstRequestFailed == call.service.reply \notin {"ok", "unused"}
SecondRequestFailed == Len(sent) = 2 /\ call.service.reply2 # "ok"
ServiceFailed == ClientCreationFailed \/ FirstRequestFailed \/ SecondRequestFailed
ServiceFailure ==
    IF ClientCreationFailed THEN call.service.create
    ELSE IF FirstRequestFailed THEN call.service.reply
    ELSE call.service.reply2
\* an exception of the body that is neither a failed check nor the service's
UnexpectedFailure == inner.kind = "raise" /\ inner.exc = "AttributeError"

(***************************************************************************)
(* C1: a ValueError or TypeError raised inside a wrapped function reaches  *)
(* the caller as that same exception, whatever TESTING is; it is never     *)
(* turned into a None result.                                              *)
(***************************************************************************)
C1_ValidationErrorsReachCaller ==
    (inner.kind = "raise" /\ inner.exc \in {"ValueError", "TypeError"}) => outcome = inner

\* a TypeError got through while TESTING is set, but not to 'true'
C1_Witness ==
    /\ inner.kind = "raise" /\ inner.exc = "TypeError"
    /\ env["TESTING"] = Set("True")
    /\ outcome.kind = "raise" /\ outcome.exc = "TypeError"

(***************************************************************************)
(* C2: with TESTING other than 'true', a failure that is not an input      *)
(* validation failure (the client cannot be created, the service refuses   *)
(* or cannot be reached, an unexpected exception) ends in the result None  *)
(* and no exception; with TESTING equal to 'true' that failure is raised   *)
(* to the caller.                                                          *)
(***************************************************************************)
C2_OtherFailuresSuppressedUnlessTesting ==
    /\ ServiceFailed =>
          IF Testing THEN outcome.kind = "raise" /\ outcome.exc = ServiceFailure
          ELSE outcome = Return(None)
    /\ UnexpectedFailure =>
          IF Testing THEN outcome = inner ELSE outcome = Return(None)

\* the client could not be created, TESTING is 'True': the tool returned None
C2_Witness ==
    /\ ClientCreationFailed
    /\ env["TESTING"] = Set("True")
    /\ outcome = Return(None)

(***************************************************************************)
(* C3: for put_records, describe_stream_summary, get_shard_iterator,       *)
(* add_tags_to_stream, describe_stream, enable_enhanced_monitoring,        *)
(* increase_stream_retention_period, list_shards and list_tags_for_stream, *)
(* the other arguments being valid: with neither stream_name nor           *)
(* stream_arn the call raises ValueError; with a valid stream_name alone   *)
(* or a valid stream_arn alone it passes validation and is dispatched.     *)
(***************************************************************************)
StreamIdentifierTools ==
    {"put_records", "describe_stream_summary", "get_shard_iterator", "add_tags_to_stream",
     "describe_stream", "enable_enhanced_monitoring", "increase_stream_retention_period",
     "list_shards", "list_tags_for_stream"}

\* the valid call of the tool, given by name
BaselineOf(tool) ==
    CASE tool = "put_records" -> put_records_base
      [] tool = "get_records" -> get_records_base
      [] tool = "create_stream" -> create_stream_base
      [] tool = "list_streams" -> list_streams_base
      [] tool = "describe_stream_summary" -> describe_stream_summary_base
      [] tool = "get_shard_iterator" -> get_shard_iterator_base
      [] tool = "add_tags_to_stream" -> add_tags_to_stream_base
      [] tool = "describe_stream" -> describe_stream_base
      [] tool = "describe_stream_consumer" -> describe_stream_consumer_base
      [] tool = "list_stream_consumers" -> list_stream_consumers_base
      [] tool = "list_tags_for_resource" -> [resource_arn |-> ValidArn]
      [] tool = "enable_enhanced_monitoring" -> enable_enhanced_monitoring_base
      [] tool = "get_resource_policy" -> get_resource_policy_base
      [] tool = "increase_stream_retention_period" -> increase_stream_retention_period_base
      [] tool = "list_shards" -> list_shards_base
      [] tool = "tag_resource" -> tag_resource_base
      [] tool = "list_tags_for_stream" -> list_tags_for_stream_base
      [] tool = "put_resource_policy" -> put_resource_policy_base
      [] OTHER -> call.args

\* all arguments but the stream identifiers are those of the valid call
OnlyIdentifiersVary ==
    /\ call.tool \in StreamIdentifierTools
    /\ [call.args EXCEPT !.stream_name = ValidName, !.stream_arn = None] = BaselineOf(call.tool)

C3_EitherIdentifierSuffices ==
    OnlyIdentifiersVary =>
        /\ (call.args.stream_name = None /\ call.args.stream_arn = None) =>
              /\ RejectedValueError
              /\ outcome.msg = "Either stream_name or stream_arn must be provided"
        /\ (call.args.stream_name \in ValidNames /\ call.args.stream_arn = None) => Dispatched
        /\ (call.args.stream_name = None /\ call.args.stream_arn \in ValidArns) => Dispatched

\* list_tags_for_stream was given an ARN only and its request went out
C3_Witness ==
    /\ Called("list_tags_for_stream") /\ OnlyIdentifiersVary
    /\ call.args.stream_name = None /\ call.args.stream_arn = ValidArn
    /\ Len(sent) = 1

(***************************************************************************)
(* C4: describe_stream_summary forwards the identifier it was given:       *)
(* called with only stream_arn, the request it sends carries StreamARN     *)
(* equal to that value; called with only stream_name, the request carries  *)
(* StreamName equal to that value.                                         *)
(***************************************************************************)
C4_IdentifierForwarded ==
    (Called("describe_stream_summary") /\ sent # <<>>) =>
        /\ sent[1].op = "describe_stream_summary"
        /\ (call.args.stream_name = None /\ call.args.stream_arn # None) =>
              sent[1].params["StreamARN"] = call.args.stream_arn
        /\ (call.args.stream_arn = None /\ call.args.stream_name # None) =>
              sent[1].params["StreamName"] = call.args.stream_name

(***************************************************************************)
(* C5: for every operation that accepts a stream_name, stream_arn or       *)
(* resource_arn argument, a value one character longer than the maximum    *)
(* (129 characters for a name, 2049 for an ARN) is rejected with           *)
(* ValueError and no request is forwarded, while a value exactly at the    *)
(* maximum (128 for a name, 2048 for an ARN) passes validation.            *)
(***************************************************************************)
IdentifierArgNames == {"stream_name", "stream_arn", "resource_arn"}
MaxLengthOf(k) ==
    IF k = "stream_name" THEN MAX_STREAM_NAME_LENGTH ELSE MAX_STREAM_ARN_LENGTH

\* the tool takes argument k, and every other argument is that of the valid call
OnlyVaries(k) ==
    /\ call.tool # ""
    /\ k \in DOMAIN call.args
    /\ [call.args EXCEPT ![k] = BaselineOf(call.tool)[k]] = BaselineOf(call.tool)

C5_IdentifierLengthBounds ==
    \A k \in IdentifierArgNames :
        OnlyVaries(k) =>
            /\ StrOfLen(call.args[k], MaxLengthOf(k) + 1) => RejectedValueError
            /\ StrOfLen(call.args[k], MaxLengthOf(k)) => PassedValidation

(***************************************************************************)
(* C6: put_records with a valid stream identifier: a records list of       *)
(* length 0 or of length 501 raises ValueError and nothing is forwarded; a *)
(* list of length 1 or of length 500 passes validation and is forwarded    *)
(* as Records with the same elements in the same order.                    *)
(***************************************************************************)
ListOfLen(v, k) == v.t = "list" /\ Len(v.items) = k
\* exactly one stream identifier is given and it is well formed
ValidIdentifierGiven ==
    \/ call.args.stream_name \in ValidNames /\ call.args.stream_arn = None
    \/ call.args.stream_name = None /\ call.args.stream_arn \in ValidArns

C6_RecordCountBounds ==
    (Called("put_records") /\ ValidIdentifierGiven) =>
        /\ (ListOfLen(call.args.records, 0) \/ ListOfLen(call.args.records, MAX_RECORDS + 1)) =>
              RejectedValueError
        /\ (ListOfLen(call.args.records, MIN_RECORDS)
              \/ ListOfLen(call.args.records, MAX_RECORDS)) =>
              /\ Dispatched
              /\ sent # <<>> =>
                    /\ sent[1].op = "put_records"
                    /\ sent[1].params["Records"] = call.args.records

\* a batch of 500 records went out for a stream given by its ARN
C6_Witness ==
    /\ Called("put_records")
    /\ call.args.stream_name = None /\ call.args.stream_arn = ValidArn
    /\ ListOfLen(call.args.records, MAX_RECORDS)
    /\ Len(sent) = 1 /\ sent[1].params["Records"] = Records(MAX_RECORDS)

(***************************************************************************)
(* C7: get_shard_iterator with a valid shard id and stream identifier:     *)
(* type AT_SEQUENCE_NUMBER or AFTER_SEQUENCE_NUMBER with no                *)
(* starting_sequence_number raises ValueError; type AT_TIMESTAMP with no   *)
(* timestamp raises ValueError; types TRIM_HORIZON and LATEST pass         *)
(* validation and are dispatched with neither supplied.                    *)
(***************************************************************************)
IteratorTypeIs(texts) == call.args.shard_iterator_type \in {PyStr(Lit(x)) : x \in texts}
\* the sequence number and the timestamp, where given, have an accepted type
DependentsWellTyped ==
    /\ call.args.starting_sequence_number.t \in {"none", "str"}
    /\ call.args.timestamp.t \in {"none", "str", "datetime"}

C7_DependentArgumentsRequired ==
    (/\ Called("get_shard_iterator")
     /\ call.args.shard_id = ValidShardId
     /\ ValidIdentifierGiven
     /\ DependentsWellTyped) =>
        /\ (/\ IteratorTypeIs({"AT_SEQUENCE_NUMBER", "AFTER_SEQUENCE_NUMBER"})
            /\ call.args.starting_sequence_number = None) =>
              /\ RejectedValueError
              /\ outcome.msg = "starting_sequence_number is required for AT_SEQUENCE_NUMBER and AFTER_SEQUENCE_NUMBER shard iterator types"
        /\ (IteratorTypeIs({"AT_TIMESTAMP"}) /\ call.args.timestamp = None) =>
              /\ RejectedValueError
              /\ outcome.msg = "timestamp is required for AT_TIMESTAMP shard iterator type"
        /\ (/\ IteratorTypeIs({"TRIM_HORIZON", "LATEST"})
            /\ call.args.starting_sequence_number = None
            /\ call.args.timestamp = None) =>
              /\ Dispatched
              /\ sent # <<>> =>
                    /\ sent[1].params["StartingSequenceNumber"] = Absent
                    /\ sent[1].params["Timestamp"] = Absent

\* AFTER_SEQUENCE_NUMBER was asked for a stream given by ARN, without a
\* sequence number, and was refused
C7_Witness ==
    /\ Called("get_shard_iterator")
    /\ call.args.shard_id = ValidShardId
    /\ call.args.stream_name = None /\ call.args.stream_arn = ValidArn
    /\ IteratorTypeIs({"AFTER_SEQUENCE_NUMBER"})
    /\ call.args.starting_sequence_number = None
    /\ RaisedValueError

(***************************************************************************)
(* C8: get_shard_iterator called with a valid shard_id and a               *)
(* shard_iterator_type that is not one of the five tokens                  *)
(* AT_SEQUENCE_NUMBER, AFTER_SEQUENCE_NUMBER, TRIM_HORIZON, LATEST,        *)
(* AT_TIMESTAMP raises a ValueError whose message names the allowed set,   *)
(* whatever the stream identifier, sequence number and timestamp arguments *)
(* are, and sends nothing to the service; each of the five tokens is       *)
(* accepted when its dependent argument is supplied.                       *)
(***************************************************************************)
FiveTokens ==
    {"AT_SEQUENCE_NUMBER", "AFTER_SEQUENCE_NUMBER", "TRIM_HORIZON", "LATEST", "AT_TIMESTAMP"}

C8_IteratorTypeEnumeration ==
    (Called("get_shard_iterator") /\ call.args.shard_id = ValidShardId) =>
        /\ ~IteratorTypeIs(FiveTokens) =>
              /\ RejectedValueError
              /\ outcome.msg = "shard_iterator_type must be one of"
              /\ outcome.names = FiveTokens
        /\ (/\ IteratorTypeIs(FiveTokens)
            /\ ValidIdentifierGiven
            /\ DependentsWellTyped
            /\ IteratorTypeIs({"AT_SEQUENCE_NUMBER", "AFTER_SEQUENCE_NUMBER"}) =>
                  call.args.starting_sequence_number # None
            /\ IteratorTypeIs({"AT_TIMESTAMP"}) => call.args.timestamp # None) =>
              /\ Dispatched
              /\ sent # <<>> =>
                    sent[1].params["ShardIteratorType"] = call.args.shard_iterator_type

\* an unknown token was refused although no stream identifier was well formed
C8_Witness ==
    /\ Called("get_shard_iterator")
    /\ call.args.shard_id = ValidShardId
    /\ call.args.shard_iterator_type = PyStr(Lit("INVALID_TYPE"))
    /\ call.args.stream_name = PyInt(123)
    /\ RaisedValueError /\ outcome.names = FiveTokens

(***************************************************************************)
(* C9: for every operation that accepts a tag map (create_stream,          *)
(* add_tags_to_stream, tag_resource), a map of 51 entries is rejected with *)
(* ValueError and is not forwarded to the service, and a map of exactly 50 *)
(* well-formed entries passes validation.                                  *)
(***************************************************************************)
TagMapTools == {"create_stream", "add_tags_to_stream", "tag_resource"}
DictOfLen(v, k) == v.t = "dict" /\ Len(v.items) = k

C9_TagCountBound ==
    (call.tool \in TagMapTools /\ OnlyVaries("tags")) =>
        /\ DictOfLen(call.args.tags, MAX_TAGS_COUNT + 1) => RejectedValueError
        /\ call.args.tags = Tags(MAX_TAGS_COUNT) => PassedValidation

(***************************************************************************)
(* C10: in create_stream and add_tags_to_stream, every tag forwarded to    *)
(* the service has a key of length 1 to 128 and a value of length 0 to     *)
(* 256: a key of length 0 or 129, or a value of length 257, raises         *)
(* ValueError, and a key of length 128 with a value of length 0 or 256     *)
(* passes validation.                                                      *)
(***************************************************************************)
\* the tag map has the one entry key: value, both strings
OneTag(v) ==
    /\ DictOfLen(v, 1)
    /\ v.items[1][1].t = "str"
    /\ v.items[1][2].t = "str"
TagKey(v) == v.items[1][1]
TagValue(v) == v.items[1][2]

C10_TagLengthBounds ==
    call.tool \in {"create_stream", "add_tags_to_stream"} =>
        /\ (sent # <<>> /\ sent[1].params["Tags"] # Absent) =>
              /\ sent[1].params["Tags"] = call.args.tags
              /\ \A i \in 1..Len(sent[1].params["Tags"].items) :
                    LET tag == sent[1].params["Tags"].items[i] IN
                    /\ tag[1].t = "str" /\ tag[2].t = "str"
                    /\ len(tag[1]) >= MIN_TAG_KEY_LENGTH /\ len(tag[1]) <= MAX_TAG_KEY_LENGTH
                    /\ len(tag[2]) <= MAX_TAG_VALUE_LENGTH
        /\ (OnlyVaries("tags") /\ OneTag(call.args.tags)) =>
              /\ (\/ len(TagKey(call.args.tags)) = 0
                  \/ len(TagKey(call.args.tags)) = MAX_TAG_KEY_LENGTH + 1
                  \/ len(TagValue(call.args.tags)) = MAX_TAG_VALUE_LENGTH + 1) =>
                    RejectedValueError
              /\ (/\ len(TagKey(call.args.tags)) = MAX_TAG_KEY_LENGTH
                  /\ len(TagValue(call.args.tags)) \in {0, MAX_TAG_VALUE_LENGTH}) =>
                    /\ Dispatched
                    /\ sent # <<>> => sent[1].params["Tags"] = call.args.tags

\* create_stream sent a tag whose key has 128 characters and whose value has 256
C10_Witness ==
    /\ Called("create_stream")
    /\ OneTag(call.args.tags)
    /\ len(TagKey(call.args.tags)) = MAX_TAG_KEY_LENGTH
    /\ len(TagValue(call.args.tags)) = MAX_TAG_VALUE_LENGTH
    /\ Len(sent) = 1 /\ sent[1].params["Tags"] = call.args.tags

(***************************************************************************)
(* C11: a shard id (shard_id of get_shard_iterator,                        *)
(* exclusive_start_shard_id of describe_stream and list_shards) of 129     *)
(* allowed characters, and a shard_iterator of 513 characters in           *)
(* get_records, are rejected with ValueError; a shard id of 128 allowed    *)
(* characters and a shard iterator of 512 characters pass validation.      *)
(***************************************************************************)
ShardArgNames == {"shard_id", "exclusive_start_shard_id", "shard_iterator"}
ShardMaxLengthOf(k) ==
    IF k = "shard_iterator" THEN MAX_LENGTH_SHARD_ITERATOR ELSE MAX_SHARD_ID_LENGTH
AllowedCharsOfLen(v, k) == v = PyStr(Chars("a", k))

C11_ShardLengthBounds ==
    \A k \in ShardArgNames :
        (call.tool \in {"get_shard_iterator", "describe_stream", "list_shards", "get_records"}
           /\ OnlyVaries(k)) =>
            /\ AllowedCharsOfLen(call.args[k], ShardMaxLengthOf(k) + 1) =>
                  /\ RejectedValueError
                  /\ outcome.msg =
                        CASE k = "shard_id" ->
                               "shard_id length must be between 1 and 128 characters"
                          [] k = "exclusive_start_shard_id" ->
                               "exclusive_start_shard_id length must be between 1 and 128 characters"
                          [] OTHER ->
                               "shard_iterator length must be between 1 and 512 characters"
            /\ AllowedCharsOfLen(call.args[k], ShardMaxLengthOf(k)) =>
                  /\ Dispatched
                  /\ sent # <<>> =>
                        sent[1].params[CASE k = "shard_id" -> "ShardId"
                                         [] k = "exclusive_start_shard_id" ->
                                              "ExclusiveStartShardId"
                                         [] OTHER -> "ShardIterator"] = call.args[k]

\* list_shards refused an exclusive_start_shard_id of 129 characters
C11_Witness ==
    /\ Called("list_shards") /\ OnlyVaries("exclusive_start_shard_id")
    /\ StrOfLen(call.args.exclusive_start_shard_id, MAX_SHARD_ID_LENGTH + 1)
    /\ RaisedValueError /\ sent = <<>>

(***************************************************************************)
(* C12: add_tags_to_stream called with a non-empty valid tag map rejects a *)
(* bad stream_name before any request is sent: an empty-string stream_name *)
(* raises ValueError ('stream_name is required') and a non-string          *)
(* stream_name raises TypeError ('stream_name must be a string').          *)
(***************************************************************************)
RejectedWith(exc, msg) ==
    /\ outcome = Raise(exc, msg)
    /\ sent = <<>>
    /\ client = NoClient

C12_AddTagsRejectsBadStreamName ==
    (Called("add_tags_to_stream") /\ OnlyVaries("stream_name")) =>
        /\ call.args.stream_name = PyStr(<<>>) =>
              RejectedWith("ValueError", "stream_name is required")
        /\ call.args.stream_name.t \notin {"none", "str"} =>
              RejectedWith("TypeError", "stream_name must be a string")

(***************************************************************************)
(* C13: every rejection of caller-supplied arguments by a tool (missing    *)
(* required field, wrong primitive type, out-of-range or malformed value,  *)
(* invalid enumeration token, missing cross-field dependent) surfaces to   *)
(* the caller as a ValueError or a TypeError, independent of TESTING; no   *)
(* argument that fails a tool's checks ends as a None result or as another *)
(* exception class.                                                        *)
(***************************************************************************)
\* the body of the tool raised on its arguments, before it asked for a client
ArgumentsRefused == call.tool # "" /\ inner.kind = "raise" /\ client = NoClient

C13_RejectionsAreValueOrTypeErrors ==
    ArgumentsRefused =>
        /\ inner.exc \in {"ValueError", "TypeError"}
        /\ outcome = inner
        /\ sent = <<>>

(***************************************************************************)
(* C14: when validation passes and the external call returns normally, the *)
(* tool returns exactly the response value returned by the external        *)
(* client, with no field added, removed or changed; in particular a        *)
(* put_records response reporting FailedRecordCount 0 and 2 record entries *)
(* for 2 submitted records is returned as such.                            *)
(***************************************************************************)
\* every request of the invocation was answered
ServiceAnswered == sent # <<>> /\ ~ServiceFailed /\ inner.kind = "return"
\* what the client returned for the last request
LastResponse ==
    Response(sent[Len(sent)].op, sent[Len(sent)].params, call.service.answer)

C14_ResponseReturnedUnchanged ==
    ServiceAnswered =>
        /\ sent[Len(sent)].op = call.tool
        /\ inner = Return(LastResponse)
        /\ outcome = Return(LastResponse)
        /\ (Called("put_records") /\ ListOfLen(call.args.records, 2)
              /\ call.service.answer = 0) =>
              /\ outcome.value.FailedRecordCount = 0
              /\ outcome.value.Records = 2

\* two records were submitted and the response reporting no failure and two
\* entries came back to the caller
C14_Witness ==
    /\ Called("put_records")
    /\ ListOfLen(call.args.records, 2)
    /\ ServiceAnswered
    /\ outcome.kind = "return"
    /\ outcome.value = [t |-> "response", op |-> "put_records", FailedRecordCount |-> 0,
                        Records |-> 2]

(***************************************************************************)
(* C15: the parameter mapping a tool forwards contains the key of an       *)
(* optional argument exactly when the caller supplied that argument with a *)
(* non-None value, under the service's PascalCase name and with the        *)
(* caller's value unchanged; when both stream_name and stream_arn are      *)
(* supplied, both StreamName and StreamARN are forwarded.                  *)
(***************************************************************************)
\* the service's name of the argument k
PascalCase(k) ==
    CASE k = "records" -> "Records"
      [] k = "stream_name" -> "StreamName"
      [] k = "stream_arn" -> "StreamARN"
      [] k = "shard_iterator" -> "ShardIterator"
      [] k = "limit" -> "Limit"
      [] k = "shard_count" -> "ShardCount"
      [] k = "stream_mode_details" -> "StreamModeDetails"
      [] k = "tags" -> "Tags"
      [] k = "exclusive_start_stream_name" -> "ExclusiveStartStreamName"
      [] k = "next_token" -> "NextToken"
      [] k = "shard_id" -> "ShardId"
      [] k = "shard_iterator_type" -> "ShardIteratorType"
      [] k = "starting_sequence_number" -> "StartingSequenceNumber"
      [] k = "timestamp" -> "Timestamp"
      [] k = "exclusive_start_shard_id" -> "ExclusiveStartShardId"
      [] k = "consumer_name" -> "ConsumerName"
      [] k = "consumer_arn" -> "ConsumerARN"
      [] k = "stream_creation_time_stamp" -> "StreamCreationTimestamp"
      [] k = "max_results" -> "MaxResults"
      [] k = "resource_arn" -> "ResourceARN"
      [] k = "shard_level_metrics" -> "ShardLevelMetrics"
      [] k = "retention_period_hours" -> "RetentionPeriodHours"
      [] k = "exclusive_start_tag_key" -> "ExclusiveStartTagKey"
      [] k = "policy" -> "Policy"

\* the arguments of the invocation that are meant for the service
ForwardedArgNames == DOMAIN call.args \ {"region_name"}

C15_OptionalArgumentsForwarded ==
    (call.tool # "" /\ sent # <<>> /\ sent[Len(sent)].op = call.tool) =>
        LET params == sent[Len(sent)].params IN
        /\ \A k \in ForwardedArgNames :
              IF call.args[k] = None THEN params[PascalCase(k)] = Absent
              ELSE params[PascalCase(k)] = call.args[k]
        /\ \A key \in ParamKeys :
              params[key] # Absent => \E k \in ForwardedArgNames : PascalCase(k) = key

(***************************************************************************)
(* C16: create_stream forwards ShardCount only when stream_mode_details    *)
(* has StreamMode PROVISIONED, and then it is the given shard_count, or 1  *)
(* if none was given; in ON_DEMAND mode (the default included) the request *)
(* contains StreamName and StreamModeDetails and never ShardCount, even if *)
(* a shard_count was passed.                                               *)
(***************************************************************************)
\* the StreamMode of the stream_mode_details the caller gave
StreamModeGiven == dict_get(call.args.stream_mode_details, "StreamMode")
CreateStreamSent == Called("create_stream") /\ sent # <<>>

C16_ShardCountOnlyWhenProvisioned ==
    CreateStreamSent =>
        LET params == sent[1].params IN
        /\ sent[1].op = "create_stream"
        /\ params["ShardCount"] # Absent <=> StreamModeGiven = PyStr(Lit("PROVISIONED"))
        /\ StreamModeGiven = PyStr(Lit("PROVISIONED")) =>
              params["ShardCount"] =
                  IF call.args.shard_count = None THEN PyInt(1) ELSE call.args.shard_count
        /\ StreamModeGiven = PyStr(Lit("ON_DEMAND")) =>
              /\ params["StreamName"] = call.args.stream_name
              /\ params["StreamModeDetails"] = call.args.stream_mode_details
              /\ params["ShardCount"] = Absent

\* a shard_count passed in ON_DEMAND mode, and the request sent
C16_Witness ==
    /\ CreateStreamSent
    /\ StreamModeGiven = PyStr(Lit("ON_DEMAND"))
    /\ call.args.shard_count = PyInt(500)
    /\ sent[1].params["ShardCount"] = Absent
    /\ sent[1].params["StreamName"] = PyStr(Lit("test"))

(***************************************************************************)
(* C17: after create_stream has succeeded for a name (as 'test') in        *)
(* on-demand or in PROVISIONED mode, a following describe_stream_summary   *)
(* of that stream_name asks the service about that stream, and the summary *)
(* the service answers with, of that name and that mode, is returned.      *)
(***************************************************************************)
\* the summary the service gives of the stream st it holds
SummaryOf(st) ==
    [t |-> "response", op |-> "describe_stream_summary", StreamName |-> st[1],
     StreamMode |-> st[2]]
\* describe_stream_summary was called with the name of the stream st, and a
\* request went out
DescribedByName(st) ==
    /\ Called("describe_stream_summary")
    /\ call.args.stream_name = PyStr(st[1])
    /\ call.args.stream_arn = None
    /\ sent # <<>>

C17_CreatedStreamDescribed ==
    \A st \in streams :
        DescribedByName(st) =>
            /\ sent[1].params["StreamName"] = PyStr(st[1])
            /\ call.service.reply = "ok" => outcome = Return(SummaryOf(st))

(***************************************************************************)
(* C18: every tool invocation that passes validation sends exactly one     *)
(* request to the external service, and that request is the service        *)
(* operation the tool is named after; no tool sends a second or a          *)
(* different request in the same invocation.                               *)
(***************************************************************************)
\* the checks passed and the client was created
ClientObtained == PassedValidation /\ call.service.create = "ok"

C18_ExactlyOneRequest ==
    ClientObtained => Len(sent) = 1 /\ sent[1].op = call.tool

(***************************************************************************)
(* C18, amended: every tool but increase_stream_retention_period sends     *)
(* exactly one request, the operation it is named after.                   *)
(* increase_stream_retention_period sends describe_stream first; its own   *)
(* request follows as the second one exactly when describe_stream was      *)
(* answered and retention_period_hours is above the retention period the   *)
(* answer reports.                                                         *)
(***************************************************************************)
C18_OneRequestButRetention ==
    ClientObtained =>
        IF Called("increase_stream_retention_period")
        THEN /\ Len(sent) \in {1, 2}
             /\ sent[1].op = "describe_stream"
             /\ Len(sent) = 2 <=>
                   /\ call.service.reply = "ok"
                   /\ call.args.retention_period_hours.n > call.service.retention
             /\ Len(sent) = 2 => sent[2].op = "increase_stream_retention_period"
        ELSE Len(sent) = 1 /\ sent[1].op = call.tool

\* the retention period raised: two requests in one invocation
C18_Witness ==
    /\ Called("increase_stream_retention_period")
    /\ ClientObtained
    /\ Len(sent) = 2
    /\ sent[1].op = "describe_stream"
    /\ sent[2].op = "increase_stream_retention_period"
    /\ outcome.kind = "return"

(***************************************************************************)
(* C19: a function wrapped by confirm_destruction is not executed when the *)
(* CONFIRM-DESTRUCTION environment variable, lower-cased, equals 'false'   *)
(* or 'no': the call then returns a dict with the single key 'message'     *)
(* holding the fixed advisory text.  For every other value, the variable   *)
(* being unset included, the wrapped function is executed exactly once and *)
(* its result is returned unchanged.                                       *)
(***************************************************************************)
\* the values of CONFIRM-DESTRUCTION that read 'false' or 'no' in lower case
BlockingValues ==
    {<<"f", "a", "l", "s", "e">>, <<"F", "a", "l", "s", "e">>, <<"F", "A", "L", "S", "E">>,
     <<"n", "o">>, <<"N", "o">>, <<"N", "O">>}
DestructionBlocked ==
    env["CONFIRM-DESTRUCTION"].set /\ env["CONFIRM-DESTRUCTION"].val \in BlockingValues

AdviceFollowed ==
    /\ Called("wrapper")
    /\ advised = "followed"
    /\ env["CONFIRM_DESTRUCTIVE_ACTION"] = [set |-> TRUE, val |-> <<"f", "a", "l", "s", "e">>]

C20_AdvisedVariableUnblocks ==
    AdviceFollowed => executed = 1 /\ outcome # Return(Advisory)

(***************************************************************************)
(* C21: get_kinesis_client creates the client for the explicit region_name *)
(* argument when it is non-empty; otherwise for the value of the           *)
(* AWS_REGION environment variable when that is set and non-empty;         *)
(* otherwise for 'us-west-2'.                                              *)
(***************************************************************************)
\* a client was created during the invocation
ClientCreated == call.tool # "" /\ client \notin {NoClient, FailedClient}
\* the argument get_kinesis_client is called with: the tool's region_name,
\* or the default of the parameter where the tool passes none
RegionNamePassed ==
    IF "region_name" \in DOMAIN call.args THEN call.args.region_name
    ELSE PyStr(Lit("us-west-2"))
RegionNameGiven == RegionNamePassed.t = "str" /\ len(RegionNamePassed) > 0
AwsRegionGiven == env["AWS_REGION"].set /\ env["AWS_REGION"].val # ""

CallerStatedRegion ==
    /\ "region_name" \in DOMAIN call.args
    /\ call.args.region_name.t = "str"
    /\ len(call.args.region_name) > 0

C22_OtherRegionOnlyIfStated ==
    ClientCreated =>
        \/ client.region = PyStr(Lit("us-west-2"))
        \/ CallerStatedRegion /\ client.region = call.args.region_name

(***************************************************************************)
(* C23: each tool invocation obtains a freshly created session and client; *)
(* no client object is reused between invocations, so a change of the      *)
(* externally supplied credentials between two invocations is in effect    *)
(* for the second invocation without restarting the process.               *)
(***************************************************************************)
C23_ClientPerInvocation ==
    /\ ClientCreated => client.credentials = credentials
    /\ call = NoCall => client = NoClient

\* a request sent after the credentials were replaced
C23_Witness ==
    /\ ClientCreated
    /\ credentials = "rotated"
    /\ client.credentials = "rotated"
    /\ sent # <<>>

(***************************************************************************)
(* C24: the layer keeps no state between invocations: the validation       *)
(* outcome of a call and the parameter mapping it forwards depend only on  *)
(* that call's arguments and on the environment variables at that moment,  *)
(* not on any earlier call of any tool (calls that relied on               *)
(* create_stream's default stream_mode_details included).  Between two     *)
(* invocations nothing of the earlier one is left, the default dict is the *)
(* one of the start, and a create_stream that relies on it after other     *)
(* calls passes the checks and forwards the ON_DEMAND default.             *)
(***************************************************************************)
\* create_stream called with the default dict of stream_mode_details
RelyingOnDefault ==
    /\ Called("create_stream")
    /\ call.args.stream_mode_details = stream_mode_default

C24_NoStateBetweenInvocations ==
    /\ stream_mode_default = PyDict(<< <<PyStr(Lit("StreamMode")), PyStr(Lit("ON_DEMAND"))>> >>)
    /\ call = NoCall =>
          /\ inner = NoOutcome
          /\ outcome = NoOutcome
          /\ sent = <<>>
          /\ client = NoClient
    /\ (RelyingOnDefault /\ OnlyVaries("shard_count") /\ call.args.shard_count.t = "none") =>
          /\ PassedValidation
          /\ sent # <<>> =>
                /\ sent[1].params["StreamName"] = call.args.stream_name
                /\ sent[1].params["StreamModeDetails"] =
                      PyDict(<< <<PyStr(Lit("StreamMode")), PyStr(Lit("ON_DEMAND"))>> >>)
                /\ sent[1].params["ShardCount"] = Absent

\* create_stream relying on the default after an earlier create_stream was answered
C24_Witness ==
    /\ RelyingOnDefault
    /\ streams # {}
    /\ call.args.shard_count = None
    /\ sent # <<>>
    /\ sent[1].params["StreamModeDetails"] = StreamModeDetails("ON_DEMAND")

(***************************************************************************)
(* C25: describe_stream_consumer requires only one of the two consumer     *)
(* identifiers: a call that supplies consumer_arn and no consumer_name     *)
(* passes validation and is dispatched with ConsumerARN, and a call that   *)
(* supplies consumer_name (with stream_arn) and no consumer_arn passes     *)
(* validation and is dispatched with ConsumerName and StreamARN.           *)
(***************************************************************************)
ByConsumerArn ==
    /\ Called("describe_stream_consumer")
    /\ call.args.consumer_arn.t = "str" /\ len(call.args.consumer_arn) > 0
    /\ call.args.consumer_name = None
    /\ call.args.stream_arn = None
ByConsumerName ==
    /\ Called("describe_stream_consumer")
    /\ call.args.consumer_name = PyStr(Lit("test-consumer"))
    /\ call.args.stream_arn = ValidArn
    /\ call.args.consumer_arn = None

C25_EitherConsumerIdentifier ==
    /\ ByConsumerArn =>
          /\ PassedValidation
          /\ sent # <<>> => sent[1].params["ConsumerARN"] = call.args.consumer_arn
    /\ ByConsumerName =>
          /\ PassedValidation
          /\ sent # <<>> =>
                /\ sent[1].params["ConsumerName"] = call.args.consumer_name
                /\ sent[1].params["StreamARN"] = call.args.stream_arn

\* ---------------------------------------------------------------------------
\* C26

\* the names of the five operations
StreamUpdateTools ==
    {"update_stream_mode", "update_shard_count", "remove_tags_from_stream",
     "start_stream_encryption", "stop_stream_encryption"}
\* one of the five operations was called with an empty stream name
EmptyStreamNameGiven ==
    /\ call.tool \in StreamUpdateTools
    /\ call.args.stream_name = PyStr(<<>>)
\* the request the five operations send carries these arguments
StreamUpdateFields ==
    [update_stream_mode |-> <<"StreamModeDetails", "stream_mode_details">>,
     update_shard_count |-> <<"TargetShardCount", "target_shard_count">>,
     remove_tags_from_stream |-> <<"TagKeys", "tag_keys">>,
     start_stream_encryption |-> <<"EncryptionType", "encryption_type">>,
     stop_stream_encryption |-> <<"EncryptionType", "encryption_type">>]
RaisedByOwnCheck ==
    /\ call.tool # ""
    /\ inner.kind = "raise"
    /\ inner.exc \in {"ValueError", "TypeError"}
\* increase_stream_retention_period found retention_period_hours not above
\* the retention period describe_stream reported
RetentionNotIncreased ==
    /\ Called("increase_stream_retention_period")
    /\ inner = Raise("ValueError",
                     "retention_period_hours must be greater than the current retention period")
\* C27: for every tool, an invocation that ends by raising ValueError or
\* TypeError from the tool's own checks has sent no request and has obtained
\* no client.
C27_ChecksBeforeService ==
    RaisedByOwnCheck => sent = <<>> /\ client = NoClient

(***************************************************************************)
(* C27, amended: an invocation that ends by a ValueError or TypeError of   *)
(* the tool's own checks has sent no request and obtained no client, but   *)
(* for the last check of increase_stream_retention_period: it compares     *)
(* retention_period_hours with the answer of describe_stream, so that its  *)
(* ValueError is raised with a client obtained and describe_stream, and    *)
(* nothing else, sent.                                                     *)
(***************************************************************************)
C27_ChecksBeforeServiceButRetention ==
    RaisedByOwnCheck =>
        IF RetentionNotIncreased
        THEN /\ client \notin {NoClient, FailedClient}
             /\ Len(sent) = 1
             /\ sent[1].op = "describe_stream"
             /\ call.service.reply = "ok"
        ELSE sent = <<>> /\ client = NoClient
\* the late check of increase_stream_retention_period raised
C27_Witness ==
    /\ RetentionNotIncreased
    /\ outcome = inner
    /\ call.args.retention_period_hours.n = call.service.retention
    /\ Len(sent) = 1

\* ---------------------------------------------------------------------------
\* C28

\* describe_stream of increase_stream_retention_period was answered
RetentionReported ==
    /\ Called("increase_stream_retention_period")
    /\ sent # <<>>
    /\ call.service.reply = "ok"
\* the increase request is among the requests of the invocation
IncreaseSent == \E i \in 1..Len(sent) : sent[i].op = "increase_stream_retention_period"
\* C28: increase_stream_retention_period sends the increase request only when
\* retention_period_hours is strictly greater than the RetentionPeriodHours
\* that describe_stream reported earlier in the invocation; when it is less or
\* equal, the caller gets a ValueError whatever TESTING is, and no increase
\* request is sent.
C28_OnlyIncreases ==
    /\ Called("increase_stream_retention_period") /\ IncreaseSent =>
          /\ RetentionReported
          /\ sent[1].op = "describe_stream"
          /\ call.args.retention_period_hours.n > call.service.retention
    /\ RetentionReported /\ call.args.retention_period_hours.n <= call.service.retention =>
          /\ outcome.kind = "raise" /\ outcome.exc = "ValueError"
          /\ ~IncreaseSent
\* 24 hours asked of a stream that keeps 48, TESTING not set
C28_Witness ==
    /\ RetentionReported
    /\ call.args.retention_period_hours.n = 24
    /\ call.service.retention = 48
    /\ ~env["TESTING"].set
    /\ RaisedValueError
    /\ ~IncreaseSent

\* ---------------------------------------------------------------------------
\* C29

\* the body raised something other than a ValueError or a TypeError
OtherFailureCaught ==
    /\ call.tool # ""
    /\ inner.kind = "raise"
    /\ inner.exc \notin {"ValueError", "TypeError"}
\* C29: TESTING is read from the environment when a non-validation failure is
\* caught: whatever it was before, the failure propagates when TESTING is
\* exactly 'true' at that moment and is turned into None when it is unset,
\* 'True', '1' or anything else.
C29_TestingReadWhenCaught ==
    OtherFailureCaught =>
        /\ env["TESTING"] = Set("true") => outcome = inner
        /\ env["TESTING"] \in {Unset, Set("True"), Set("1")} => outcome = Return(None)
        /\ env["TESTING"] # Set("true") => outcome = Return(None)
\* TESTING was set to 'true' after the start and a failure of the service is
\* propagated
C29_Witness ==
    /\ OtherFailureCaught
    /\ FirstRequestFailed
    /\ env["TESTING"] = Set("true")
    /\ outcome = inner
    /\ outcome.exc = "ClientError"

\* ---------------------------------------------------------------------------
\* C30

\* enable_enhanced_monitoring called with a list for shard_level_metrics and
\* the other arguments valid
MetricsListGiven ==
    /\ Called("enable_enhanced_monitoring")
    /\ OnlyVaries("shard_level_metrics")
    /\ call.args.shard_level_metrics.t = "list"
\* the list has 1 to 7 entries, each of them one of the eight valid names
MetricsAcceptable ==
    LET metrics == call.args.shard_level_metrics.items IN
    /\ Len(metrics) \in 1..7
    /\ \A i \in 1..Len(metrics) : in_texts(metrics[i], VALID_SHARD_LEVEL_METRICS)
\* the list names each of the eight valid metrics once
AllMetricsGiven ==
    /\ MetricsListGiven
    /\ Len(call.args.shard_level_metrics.items) = 8
    /\ \A name \in VALID_SHARD_LEVEL_METRICS :
          \E i \in 1..8 : eq_text(call.args.shard_level_metrics.items[i], name)
\* C30: enable_enhanced_monitoring accepts a shard_level_metrics list if and
\* only if it has between 1 and 7 entries and every entry is one of the 8
\* names of VALID_SHARD_LEVEL_METRICS, duplicates allowed; the list of all 8
\* valid names is rejected with ValueError and never forwarded.
C30_MetricsListAccepted ==
    /\ Cardinality(VALID_SHARD_LEVEL_METRICS) = 8
    /\ MetricsListGiven =>
          /\ PassedValidation <=> MetricsAcceptable
          /\ ~MetricsAcceptable =>
                /\ RejectedValueError
                /\ inner = outcome
          /\ ClientObtained =>
                sent[1].params["ShardLevelMetrics"] = call.args.shard_level_metrics
    /\ AllMetricsGiven => RejectedValueError
\* all eight valid names given: rejected for their number
C30_Witness ==
    /\ AllMetricsGiven
    /\ RejectedWith("ValueError", "Number of shard_level_metrics must be between 1 and 7")

====
